---------------------------- MODULE Spec2Model ----------------------------
(***************************************************************************)
(* A model of meli's mail backend core: the threading engine               *)
(* (melib/src/mailbox/thread.rs) and the IMAP backend                      *)
(* (melib/src/backends/imap.rs, melib/src/backends/imap/operations.rs).    *)
(*                                                                         *)
(* Each subsystem has its own specification over the shared variables:     *)
(*   SpecThread   build_threads, one loop iteration per step               *)
(*   SpecGet      get() workers fetching mailboxes over one connection     *)
(*   SpecConn     get(), refresh() and search() sharing the connection     *)
(*   SpecStore    get() and search() on two mailboxes of one UID store      *)
(*   SpecTags     get() and set_tag sharing the tag index                   *)
(*   SpecSave     save() and search() sharing the connection                *)
(*   SpecOp       ImapOp calls next to a get() worker; SpecOpFair adds     *)
(*                weak fairness of every operation's steps                 *)
(*   SpecLookup   ImapOp calls alone, one more of them                     *)
(*   SpecFolder   the mailbox management calls against a server            *)
(*   SpecList     folders() called repeatedly on a fresh backend            *)
(*   SpecLines    imap_folders' LIST loop, one line per step                *)
(*   SpecSort     Threads::sort_by called repeatedly on a built tree        *)
(*   SpecTree     Threads::build_collection on the arena of build_threads   *)
(*   SpecFetch    uid_fetch_response(s) applied to an input                 *)
(*   SpecStatus   a reply converted to Result<()> through ImapResponse      *)
(*   SpecSearch   search_results and search_results_raw on a reply          *)
(*   SpecIter     ThreadIterator over a presentation tree (SpecIterFair:    *)
(*                next() is called again until it returns None)             *)
(*   SpecLocks    the lock acquisitions of concurrent calls on one ImapType *)
(*   SpecSelect   the commands of concurrent calls on one connection        *)
(***************************************************************************)
EXTENDS Integers, Sequences, FiniteSets, TLC

(***************************************************************************)
(* Bounds of the model.                                                    *)
(***************************************************************************)
MaxEnvelopes == 3
MaxSent == 1
MaxMsgId == 3
MaxDate == 2

(* build_collection links a message to this many of its References, counted
   from the end of the header (the iasf guard). *)
IasfLimit == 1

(* The number of backend operations started in a behaviour. *)
MaxOps == 2

(* The number of ImapOp calls in a behaviour without a get() worker. *)
MaxLookups == 3

(* The envelopes of a collection whose presentation tree is built, and the
   "Re: " prefixes a subject may carry. *)
MaxTreeMsgs == 3
MaxRe == 1

(* The bytes of an RFC822 literal's body and the items of a FETCH response
   handed to the parser. *)
MaxBody == 2
MaxItems == 2

(* The bytes that follow "* SEARCH" in a reply handed to search_results. *)
MaxSearch == 6

(* The nodes of a presentation tree a ThreadIterator walks, and the
   iterators made over one tree. *)
MaxIterNodes == 4
MaxIters == 2

(* The threads that call into one ImapType at the same time. *)
MaxCallers == 2

(* The number of FETCH responses in the reply to one UID FETCH. *)
MaxResponses == 2

(* The number of UIDs on a "* SEARCH" line. *)
MaxListed == 2

(* The number of sort_by calls in a behaviour. *)
MaxSortCalls == 2

(* Option::None for the index-valued fields; indices are 1-based here. *)
NONE == 0

(* get() fetches the UIDs of a mailbox in batches of this size. *)
BatchSize == 500

(* The width of usize. The program's is 64 bits; the model keeps 30, the
   widest power of two that TLC's integers hold: every value that usize
   arithmetic is compared with (UIDs, BatchSize) lies far below it. *)
UsizeBits == 30

VARIABLES
    \* ---- threading engine (thread.rs) ----
    containers,      \* Vec<Container>: the arena
    id_table,        \* FnvHashMap<Message-ID, usize>; NONE when absent
    collection,      \* the envelope collection (fields read after linking)
    root_set,        \* Threads.root_set
    tpc,             \* position inside build_threads
    refused,         \* history: a link was refused by the is_descendant check
    \* ---- IMAP backend (imap.rs, imap/operations.rs) ----
    folders,         \* ImapType.folders: the cached mailbox map
    uidvalidity,     \* UIDStore.uidvalidity
    hash_index,      \* UIDStore.hash_index: EnvelopeHash -> (UID, FolderHash)
    uid_index,       \* UIDStore.uid_index: UID -> EnvelopeHash
    conn_lock,       \* owner of the connection mutex, or "free"
    conn_poisoned,   \* the connection mutex was poisoned by a panic
    pending,         \* threads whose command is sent and not yet answered
    chan,            \* per get() call: the messages sent on its channel
    th,              \* per thread: the running operation and its locals
    nops,            \* operations started so far
    byte_cache,      \* UIDStore.byte_cache: UID -> EnvelopeCache
    cache_lock,      \* owner of the byte_cache mutex, or "free"
    cache_poisoned,  \* the byte_cache mutex was poisoned by a panic
    tag_index,       \* the tag index shared with every ImapOp
    server,          \* the server's mailboxes and subscriptions
    pre,             \* history: the cache before the last folder operation
    list_lines,      \* imap_folders: the parsed lines of the LIST response
    list_pos,        \* imap_folders: the lines consumed so far
    list_folders,    \* imap_folders: its local map `folders`
    \* ---- Threads' presentation order (thread.rs) ----
    tree,            \* Threads.tree: the roots, each with its children
    sort,            \* Threads.sort: the key the roots were last sorted by
    subsort,         \* Threads.subsort: the same for the children
    sort_calls,      \* sort_by calls so far
    resorted,        \* history: the last sort_by call ran an inner sort
    threaded_collection, \* Threads.threaded_collection
    \* ---- the response parsers (imap_async/protocol_parser.rs) ----
    parse,           \* a parser call: the function, its input, its result
    \* ---- the iterators over Threads.tree (thread.rs) ----
    iter,            \* an iterator: its kind, pos, stack and what it yielded
    \* ---- the locks of ImapType (imap.rs) ----
    lk,              \* per caller: the call it runs and its lock steps done
    selected         \* the mailbox the connection last SELECTed or EXAMINEd

threadVars == <<containers, id_table, collection, root_set, tpc, refused>>

imapVars == <<folders, uidvalidity, hash_index, uid_index, conn_lock,
              conn_poisoned, pending, chan, th, nops>>

opVars == <<byte_cache, cache_lock, cache_poisoned, tag_index>>

folderVars == <<server, pre>>

listVars == <<list_lines, list_pos, list_folders>>

parseVars == <<parse>>

iterVars == <<iter>>

lockVars == <<lk, selected>>

sortVars == <<tree, sort, subsort, sort_calls, resorted, threaded_collection>>

vars == <<threadVars, imapVars, opVars, folderVars, listVars, parseVars, iterVars, lockVars, sortVars>>

(* No parser call. *)
NoParse == [fn |-> "none", input |-> <<>>, res |-> [kind |-> "none"]]

(* No caller of the backend. *)
NoLocks == << >>

(* No iterator. *)
NoIter ==
    [kind |-> "none", pos |-> 0, stack |-> <<>>, out |-> <<>>, done |-> FALSE,
     made |-> 0]

-----------------------------------------------------------------------------
(***************************************************************************)
(* Threading engine.                                                       *)
(***************************************************************************)
MsgIds == 1..MaxMsgId
Dates == 1..MaxDate

(* Message-IDs are opaque names: an input introduces them in increasing
   order, so k may be named once k - 1 ids are known. *)
KnownIds(idt) == {k \in MsgIds : idt[k] # NONE}

Nameable(known) == {k \in MsgIds : k <= Cardinality(known) + 1}

(* The References header: a list of Message-IDs, oldest first, up to one
   entry longer than the part build_collection reads. *)
RefLists(ids) == UNION {[1..n -> ids] : n \in 0..(IasfLimit + 1)}

NewContainer(id, message, parent, first_child, date) ==
    [id |-> id, message |-> message, parent |-> parent,
     first_child |-> first_child, next_sibling |-> NONE, date |-> date,
     indentation |-> 0, show_subject |-> TRUE]

(* impl PartialEq for Container *)
ContainerEq(a, b) ==
    IF a.message # NONE /\ b.message # NONE
    THEN a.message = b.message
    ELSE a.id = b.id

(* Every container reached from the frontier by first_child and
   next_sibling edges. *)
RECURSIVE ReachFrom(_, _, _)
ReachFrom(threads, frontier, seen) ==
    IF frontier = {} THEN seen
    ELSE LET nxt == ({threads[v].first_child : v \in frontier}
                      \cup {threads[v].next_sibling : v \in frontier})
                    \ ({NONE} \cup seen)
         IN ReachFrom(threads, nxt, seen \cup nxt)

Reach(threads, i) == ReachFrom(threads, {i}, {i})

(* A link check that never finds a relation between the two containers. *)
is_descendant_unchecked(threads, self, other) == FALSE

(* Container::is_descendant: other is self, or is found below self's
   first_child or after self's next_sibling. *)
is_descendant(threads, self, other) ==
    \E v \in Reach(threads, self) : ContainerEq(threads[v], threads[other])

(* The last container of the sibling chain that starts at c. *)
RECURSIVE LastSibling(_, _, _)
LastSibling(threads, c, fuel) ==
    IF threads[c].next_sibling = NONE \/ fuel = 0 THEN c
    ELSE LastSibling(threads, threads[c].next_sibling, fuel - 1)

(* The containers of the sibling chain that starts at c. *)
RECURSIVE SiblingChain(_, _, _)
SiblingChain(threads, c, fuel) ==
    IF c = NONE \/ fuel = 0 THEN {}
    ELSE {c} \cup SiblingChain(threads, threads[c].next_sibling, fuel - 1)

(* Append c to p's child list, walking to the end of the next_sibling chain
   and setting the parent of every child passed. *)
AppendChild(threads, p, c) ==
    IF threads[p].first_child = NONE
    THEN [threads EXCEPT ![p].first_child = c]
    ELSE LET fc == threads[p].first_child
             chain == SiblingChain(threads, fc, Len(threads))
             last == LastSibling(threads, fc, Len(threads))
         IN [i \in 1..Len(threads) |->
               IF i = last
               THEN [threads[i] EXCEPT !.next_sibling = c, !.parent = p]
               ELSE IF i \in chain
               THEN [threads[i] EXCEPT !.parent = p]
               ELSE threads[i]]

(* The 'date loop: raise the date of parent_iter and of its ancestors. *)
RECURSIVE UpdateDate(_, _, _, _)
UpdateDate(threads, parent_iter, date, fuel) ==
    LET t == IF threads[parent_iter].date < date
             THEN [threads EXCEPT ![parent_iter].date = date]
             ELSE threads
    IN IF threads[parent_iter].parent = NONE \/ fuel = 0 THEN t
       ELSE UpdateDate(t, threads[parent_iter].parent, date, fuel - 1)

(* The reference loop of build_collection for envelope x held by container
   x_index: the iasf guard lets only the first iteration of the reversed
   References list act, that is its last entry. *)
LinkReference(threads, idt, x_index, x) ==
    IF Len(x.refs) < IasfLimit
    THEN [threads |-> threads, id_table |-> idt, refused |-> FALSE]
    ELSE
    LET r == x.refs[Len(x.refs)]
        curr_ref == x_index
    IN IF idt[r] # NONE
       THEN LET p == idt[r]
                related == is_descendant(threads, p, curr_ref)
                           \/ is_descendant(threads, curr_ref, p)
                linked == IF related THEN threads
                          ELSE AppendChild(
                                 [threads EXCEPT ![curr_ref].parent = p],
                                 p, curr_ref)
            IN [threads |-> UpdateDate(linked, p, x.date, Len(linked)),
                id_table |-> idt, refused |-> related /\ p # curr_ref]
       ELSE LET idx == Len(threads) + 1
                pushed == Append(threads,
                            NewContainer(idx, NONE, NONE, curr_ref, x.date))
                adopted == IF pushed[curr_ref].parent = NONE
                           THEN [pushed EXCEPT ![curr_ref].parent = idx]
                           ELSE pushed
            IN [threads |-> UpdateDate(adopted, idx, x.date, Len(adopted)),
                id_table |-> [idt EXCEPT ![r] = idx], refused |-> FALSE]

(* One iteration of build_collection's loop: envelope x arrives as the i-th
   entry of the collection. *)
build_collection_step(threads, idt, i, x) ==
    IF idt[x.mid] # NONE
    THEN LET t == idt[x.mid]
         IN IF threads[t].message # NONE
            THEN [threads |-> threads, id_table |-> idt,
                  refused |-> FALSE]                 \* duplicate: skip
            ELSE LinkReference(
                   [threads EXCEPT ![t].date = x.date, ![t].message = i],
                   idt, t, x)
    ELSE LET x_index == Len(threads) + 1
         IN LinkReference(
              Append(threads, NewContainer(x_index, i, NONE, NONE, x.date)),
              [idt EXCEPT ![x.mid] = x_index], x_index, x)

(* One iteration of the Sent-folder loop of build_threads: x is an envelope
   of the Sent mailbox, idx the index it would get in the collection. *)
sent_step(threads, idt, idx, x) ==
    IF idt[x.mid] # NONE
    THEN LET c == idt[x.mid]
         IN IF threads[c].message # NONE
            THEN [threads |-> threads, id_table |-> idt, pushed |-> FALSE]
            ELSE [threads |-> [threads EXCEPT ![c].message = idx,
                                              ![c].date = x.date],
                  id_table |-> idt, pushed |-> TRUE]
    ELSE IF x.in_reply_to # NONE /\ idt[x.in_reply_to] # NONE
    THEN LET p == idt[x.in_reply_to]
             c == Len(threads) + 1
             t1 == Append(threads, NewContainer(c, idx, p, NONE, x.date))
             idt1 == [idt EXCEPT ![x.mid] = c]
         IN IF is_descendant(t1, p, c) \/ is_descendant(t1, c, p)
            THEN [threads |-> t1, id_table |-> idt1, pushed |-> FALSE]
            ELSE [threads |-> UpdateDate(AppendChild(t1, p, c), p, x.date,
                                         Len(t1)),
                  id_table |-> idt1, pushed |-> TRUE]
    ELSE [threads |-> threads, id_table |-> idt, pushed |-> FALSE]

(* The derivation without the promotion: the container itself. *)
KeepRoot(threads, v) == v

(* Root-set derivation of build_threads: parentless containers, a synthetic
   one with a single child replaced by that child. *)
RootOf(threads, v) ==
    IF threads[v].message = NONE
       /\ threads[v].first_child # NONE
       /\ threads[threads[v].first_child].next_sibling = NONE
    THEN threads[v].first_child
    ELSE v

RootSet(threads, idt) ==
    {RootOf(threads, idt[m]) :
        m \in {k \in MsgIds : idt[k] # NONE /\ threads[idt[k]].parent = NONE}}

InitThread ==
    /\ containers = <<>>
    /\ id_table = [m \in MsgIds |-> NONE]
    /\ collection = <<>>
    /\ root_set = {}
    /\ tpc = "collect"
    /\ refused = FALSE
    /\ folders = << >>
    /\ uidvalidity = << >>
    /\ hash_index = << >>
    /\ uid_index = << >>
    /\ conn_lock = "free"
    /\ conn_poisoned = FALSE
    /\ pending = {}
    /\ chan = << >>
    /\ th = << >>
    /\ nops = 0
    /\ byte_cache = << >>
    /\ cache_lock = "free"
    /\ cache_poisoned = FALSE
    /\ tag_index = {}
    /\ server = << >>
    /\ pre = << >>
    /\ list_lines = <<>>
    /\ list_pos = 0
    /\ list_folders = << >>
    /\ parse = NoParse
    /\ iter = NoIter
    /\ lk = NoLocks
    /\ selected = "none"
    /\ tree = <<>>
    /\ sort = <<"Date", "Desc">>
    /\ subsort = <<"Date", "Desc">>
    /\ sort_calls = 0
    /\ resorted = FALSE
    /\ threaded_collection = <<>>

(* build_collection: the next envelope of the collection is threaded. *)
AddEnvelope ==
    /\ tpc = "collect"
    /\ Len(collection) < MaxEnvelopes
    /\ \E mid \in Nameable(KnownIds(id_table)), date \in Dates :
       \E refs \in RefLists(Nameable(KnownIds(id_table) \cup {mid})) :
         LET x == [mid |-> mid, refs |-> refs, date |-> date]
             r == build_collection_step(containers, id_table,
                                        Len(collection) + 1, x)
         IN /\ containers' = r.threads
            /\ id_table' = r.id_table
            /\ collection' = Append(collection, [mid |-> mid, date |-> date])
            /\ refused' = (refused \/ r.refused)
    /\ UNCHANGED <<root_set, tpc, imapVars, opVars, folderVars, listVars, parseVars, iterVars, lockVars, sortVars>>

(* build_threads leaves build_collection and enters the Sent-folder pass. *)
StartSent ==
    /\ tpc = "collect"
    /\ Len(collection) > 0
    /\ tpc' = "sent"
    /\ UNCHANGED <<containers, id_table, collection, root_set, refused,
                   imapVars, opVars, folderVars, listVars, parseVars, iterVars, lockVars, sortVars>>

(* The Sent-folder pass handles the next envelope of the Sent mailbox. *)
AddSent ==
    /\ tpc = "sent"
    /\ Len(collection) < MaxEnvelopes + MaxSent
    /\ \E mid \in Nameable(KnownIds(id_table)), date \in Dates,
          irt \in Nameable(KnownIds(id_table)) \cup {NONE} :
         LET x == [mid |-> mid, in_reply_to |-> irt, date |-> date]
             r == sent_step(containers, id_table, Len(collection) + 1, x)
         IN /\ containers' = r.threads
            /\ id_table' = r.id_table
            /\ collection' = IF r.pushed
                             THEN Append(collection,
                                         [mid |-> mid, date |-> date])
                             ELSE collection
    /\ UNCHANGED <<root_set, tpc, refused, imapVars, opVars, folderVars, listVars, parseVars, iterVars, lockVars, sortVars>>

(* The rest of build_threads: the root set is derived. *)
FinishThreads ==
    /\ tpc = "sent"
    /\ root_set' = RootSet(containers, id_table)
    /\ tpc' = "done"
    /\ UNCHANGED <<containers, id_table, collection, refused, imapVars, opVars, folderVars, listVars, parseVars, iterVars, lockVars, sortVars>>

NextThread == AddEnvelope \/ StartSent \/ AddSent \/ FinishThreads

SpecThread == InitThread /\ [][NextThread]_vars

-----------------------------------------------------------------------------
(***************************************************************************)
(* IMAP backend: shared state.                                             *)
(***************************************************************************)
Mailboxes == {"INBOX", "Sent", "Lists"}

Threads == {"t1", "t2"}

UsizeMax == 2^UsizeBits - 1

Max(a, b) == IF a > b THEN a ELSE b

(* usize::saturating_sub *)
saturating_sub(a, b) == IF a > b THEN a - b ELSE 0

(* usize subtraction in a release build: it wraps. *)
wrapping_sub(a, b) == (a - b) % (UsizeMax + 1)

(* HashMap::insert *)
Put(map, k, v) ==
    [x \in (DOMAIN map) \cup {k} |-> IF x = k THEN v ELSE map[x]]

(* The UIDs the server's mailboxes may hold: the first UID and the UID on
   the boundary of two batches. *)
UidPool == {1, BatchSize}

(* UIDNEXT of a SELECT response; 0 stands for a response without a UIDNEXT
   line, which leaves SelectResponse::default()'s value. *)
UidNextChoices ==
    {0, 1, 2, BatchSize + 2, 2 * BatchSize + 1}

(* What get() reads of a SELECT response that select_response accepts. *)
SelectResponses ==
    [uidnext : UidNextChoices, uidvalidity : {"v1"}, read_only : BOOLEAN]

(* The envelope hash get() computes: DefaultHasher over the UID and the
   mailbox path, taken as collision-free. *)
EnvHash(uid, folder_path) == [uid |-> uid, path |-> folder_path]

(* An ImapFolder of the cached map, with the fields the backend reads. *)
Folder(no_select, subscribed, del, chg) ==
    [no_select |-> no_select, is_subscribed |-> subscribed,
     delete_mailbox |-> del, change_permissions |-> chg,
     create_messages |-> FALSE, exists |-> 0, unseen |-> 0]

(* A thread that runs no operation. *)
NoOp ==
    [op |-> "none", pc |-> "idle", m |-> "none", no_select |-> FALSE,
     uidnext |-> 0, exists |-> 0, our_unseen |-> 0, cmds |-> <<>>,
     res |-> "none", uid |-> NONE, val |-> "none", touched |-> FALSE,
     starved |-> FALSE, ret |-> {}, held |-> FALSE,
     v |-> [responses |-> 0, uid |-> NONE],
     set |-> [f |-> "none", value |-> FALSE, prev |-> "none"],
     reply |-> [search |-> FALSE, uids |-> <<>>], hashes |-> <<>>]

Cmd(name, arg) == [cmd |-> name, arg |-> arg]

Msg(kind, envs) == [kind |-> kind, envs |-> envs]

Idle(t) == th[t].pc \in {"idle", "done", "panicked"}

(* A call that borrows the backend object itself is running on thread u:
   refresh takes &mut self and search takes &self; a get() worker and an
   ImapOp own clones of the shared handles instead. *)
BorrowedBy(u, ops) == th[u].op \in ops /\ ~Idle(u)

(* &mut self: no other call on the backend object is running. *)
ExclusiveBorrow(t) ==
    \A u \in Threads \ {t} : ~BorrowedBy(u, {"refresh", "search"})

(* &self: no call that takes &mut self is running. *)
SharedBorrow(t) ==
    \A u \in Threads \ {t} : ~BorrowedBy(u, {"refresh"})

ThreadIdle ==
    /\ containers = <<>>
    /\ id_table = [m \in MsgIds |-> NONE]
    /\ collection = <<>>
    /\ root_set = {}
    /\ tpc = "collect"
    /\ refused = FALSE

ImapIdle ==
    /\ uidvalidity = << >>
    /\ hash_index = << >>
    /\ uid_index = << >>
    /\ conn_lock = "free"
    /\ conn_poisoned = FALSE
    /\ pending = {}
    /\ chan = [t \in Threads |-> <<>>]
    /\ th = [t \in Threads |-> NoOp]
    /\ nops = 0
    /\ byte_cache = << >>
    /\ cache_lock = "free"
    /\ cache_poisoned = FALSE
    /\ tag_index = {}

(* No folder operation has run; the server is not looked at. *)
FolderIdle ==
    /\ server = << >>
    /\ pre = << >>

ListIdle ==
    /\ list_lines = <<>>
    /\ list_pos = 0
    /\ list_folders = << >>

(* Threads::default() *)
ParseIdle == parse = NoParse

IterIdle == iter = NoIter

LockIdle == lk = NoLocks /\ selected = "none"

SortIdle ==
    /\ tree = <<>>
    /\ sort = <<"Date", "Desc">>
    /\ subsort = <<"Date", "Desc">>
    /\ sort_calls = 0
    /\ resorted = FALSE
    /\ threaded_collection = <<>>

-----------------------------------------------------------------------------
(***************************************************************************)
(* ImapType::get: the caller's part and the worker closure, one step per    *)
(* blocking point (mutex acquisition, command sent, response read).        *)
(***************************************************************************)

(* The closure's error path: the connection guard is dropped, the error is
   sent as a payload, and Finished follows. *)
GetFail(t) ==
    /\ th' = [th EXCEPT ![t].pc = "done", ![t].res = "err"]
    /\ chan' = [chan EXCEPT
                  ![t] = chan[t] \o <<Msg("Err", {}), Msg("Finished", {})>>]
    /\ conn_lock' = IF conn_lock = t THEN "free" ELSE conn_lock
    /\ pending' = pending \ {t}

(* The worker thread panics: unwinding drops the connection guard, which
   poisons the mutex; nothing more is sent on the channel. *)
GetPanic(t) ==
    /\ th' = [th EXCEPT ![t].pc = "panicked", ![t].res = "panic"]
    /\ conn_lock' = IF conn_lock = t THEN "free" ELSE conn_lock
    /\ conn_poisoned' = (conn_poisoned \/ conn_lock = t)
    /\ pending' = pending \ {t}

(* send_command succeeded: the command is on the wire. *)
Sent(t, c, next_pc) ==
    /\ th' = [th EXCEPT ![t].pc = next_pc, ![t].cmds = Append(@, c)]
    /\ pending' = pending \cup {t}

(* get(): the folder's fields are read and the worker is spawned. *)
GetCall(t, m) ==
    /\ Idle(t)
    /\ ExclusiveBorrow(t)
    /\ nops < MaxOps
    /\ m \in DOMAIN folders
    /\ th' = [th EXCEPT ![t] = [NoOp EXCEPT !.op = "get", !.pc = "spawned",
                                  !.m = m,
                                  !.no_select = folders[m].no_select]]
    /\ chan' = [chan EXCEPT ![t] = <<>>]
    /\ nops' = nops + 1
    /\ UNCHANGED <<threadVars, listVars, parseVars, iterVars, lockVars, sortVars, opVars, folderVars>>
    /\ UNCHANGED <<folders, uidvalidity, hash_index, uid_index, conn_lock,
                   conn_poisoned, pending>>

(* A \Noselect mailbox: an empty payload, then Finished. *)
GetNoSelect(t) ==
    /\ th[t].op = "get" /\ th[t].pc = "spawned" /\ th[t].no_select
    /\ th' = [th EXCEPT ![t].pc = "done", ![t].res = "ok"]
    /\ chan' = [chan EXCEPT
                  ![t] = chan[t] \o <<Msg("Ok", {}), Msg("Finished", {})>>]
    /\ UNCHANGED <<threadVars, listVars, parseVars, iterVars, lockVars, sortVars, opVars, folderVars>>
    /\ UNCHANGED <<folders, uidvalidity, hash_index, uid_index, conn_lock,
                   conn_poisoned, pending, nops>>

(* connection.lock()?: blocks while another thread holds the mutex; a
   poisoned mutex is an error. *)
GetLock(t) ==
    /\ th[t].op = "get" /\ th[t].pc = "spawned" /\ ~th[t].no_select
    /\ conn_lock = "free"
    /\ IF conn_poisoned
       THEN GetFail(t) /\ UNCHANGED conn_poisoned
       ELSE /\ conn_lock' = t
            /\ th' = [th EXCEPT ![t].pc = "select_send"]
            /\ UNCHANGED <<chan, pending, conn_poisoned>>
    /\ UNCHANGED <<threadVars, listVars, parseVars, iterVars, lockVars, sortVars, opVars, folderVars>>
    /\ UNCHANGED <<folders, uidvalidity, hash_index, uid_index, nops>>

(* send_command(SELECT) *)
GetSelectSend(t) ==
    /\ th[t].op = "get" /\ th[t].pc = "select_send"
    /\ \/ Sent(t, Cmd("SELECT", th[t].m), "select_read")
          /\ UNCHANGED <<chan, conn_lock>>
       \/ GetFail(t)
    /\ UNCHANGED <<threadVars, listVars, parseVars, iterVars, lockVars, sortVars, opVars, folderVars>>
    /\ UNCHANGED <<folders, uidvalidity, hash_index, uid_index,
                   conn_poisoned, nops>>

(* read_response and select_response, then exists = uidnext - 1 and the
   uidvalidity, permission and exists updates. *)
GetSelectRead(t) ==
    /\ th[t].op = "get" /\ th[t].pc = "select_read"
    /\ \/ /\ GetFail(t)       \* read error, or a reply without "* OK"
          /\ UNCHANGED <<folders, uidvalidity, conn_poisoned>>
       \/ \E r \in SelectResponses :
            \/ /\ r.uidnext = 0      \* debug build: subtraction overflow
               /\ GetPanic(t)
               /\ UNCHANGED <<folders, uidvalidity, chan>>
            \/ LET exists == wrapping_sub(r.uidnext, 1)
                   m == th[t].m
               IN /\ th' = [th EXCEPT ![t].pc = "examine_send",
                                      ![t].uidnext = r.uidnext,
                                      ![t].exists = exists]
                  /\ pending' = pending \ {t}
                  /\ uidvalidity' = Put(uidvalidity, m, r.uidvalidity)
                  /\ folders' = [folders EXCEPT
                                   ![m].create_messages = ~r.read_only,
                                   ![m].exists = exists]
                  /\ UNCHANGED <<chan, conn_lock, conn_poisoned>>
    /\ UNCHANGED <<threadVars, listVars, parseVars, iterVars, lockVars, sortVars, opVars, folderVars>>
    /\ UNCHANGED <<hash_index, uid_index, nops>>

(* send_command(EXAMINE) *)
GetExamineSend(t) ==
    /\ th[t].op = "get" /\ th[t].pc = "examine_send"
    /\ \/ Sent(t, Cmd("EXAMINE", th[t].m), "examine_read")
          /\ UNCHANGED <<chan, conn_lock>>
       \/ GetFail(t)
    /\ UNCHANGED <<threadVars, listVars, parseVars, iterVars, lockVars, sortVars, opVars, folderVars>>
    /\ UNCHANGED <<folders, uidvalidity, hash_index, uid_index,
                   conn_poisoned, nops>>

(* read_response of the EXAMINE *)
GetExamineRead(t) ==
    /\ th[t].op = "get" /\ th[t].pc = "examine_read"
    /\ \/ GetFail(t)
       \/ /\ th' = [th EXCEPT ![t].pc = "fetch"]
          /\ pending' = pending \ {t}
          /\ UNCHANGED <<chan, conn_lock>>
    /\ UNCHANGED <<threadVars, listVars, parseVars, iterVars, lockVars, sortVars, opVars, folderVars>>
    /\ UNCHANGED <<folders, uidvalidity, hash_index, uid_index,
                   conn_poisoned, nops>>

(* The UID range of the batch that starts with `exists` messages left. *)
FetchRange(exists) ==
    <<Max(saturating_sub(exists, BatchSize), 1), exists>>

(* while exists > 1 *)
LoopRuns(exists) == exists > 1

(* The value of `exists` after a batch. *)
NextExists(exists) == Max(saturating_sub(exists, BatchSize), 1)

(* The head of the loop: send_command(UID FETCH lo:hi) while exists > 1;
   after the loop the connection is dropped and Finished is sent. *)
GetFetchSend(t) ==
    /\ th[t].op = "get" /\ th[t].pc = "fetch"
    /\ IF LoopRuns(th[t].exists)
       THEN \/ Sent(t, Cmd("UID FETCH", FetchRange(th[t].exists)),
                    "fetch_read")
               /\ UNCHANGED <<chan, conn_lock>>
            \/ GetFail(t)
       ELSE /\ th' = [th EXCEPT ![t].pc = "done", ![t].res = "ok"]
            /\ chan' = [chan EXCEPT ![t] = Append(@, Msg("Finished", {}))]
            /\ conn_lock' = "free"
            /\ UNCHANGED pending
    /\ UNCHANGED <<threadVars, listVars, parseVars, iterVars, lockVars, sortVars, opVars, folderVars>>
    /\ UNCHANGED <<folders, uidvalidity, hash_index, uid_index,
                   conn_poisoned, nops>>

(* The rows of a FETCH reply for the range: the server's messages with a
   UID in it, each seen or not. *)
FetchRows(range) ==
    LET inrange == {u \in UidPool : range[1] <= u /\ u <= range[2]}
    IN UNION {[uid : {u}, seen : BOOLEAN] : u \in inrange}

RowSets(range) ==
    {rows \in SUBSET FetchRows(range) :
        \A a, b \in rows : a.uid = b.uid => a = b}

(* The envelope get() builds from a row fetched from mailbox m. *)
EnvelopeOf(row, m) ==
    [hash |-> EnvHash(row.uid, m), uid |-> row.uid, mailbox |-> m,
     seen |-> row.seen]

(* hash_index after the rows of a batch are inserted. *)
InsertHashes(index, rows, m) ==
    [h \in (DOMAIN index) \cup {EnvHash(r.uid, m) : r \in rows} |->
        IF \E r \in rows : EnvHash(r.uid, m) = h
        THEN <<h.uid, m>>
        ELSE index[h]]

(* uid_index after the rows of a batch are inserted. *)
InsertUids(index, rows, m) ==
    [u \in (DOMAIN index) \cup {r.uid : r \in rows} |->
        IF \E r \in rows : r.uid = u THEN EnvHash(u, m) ELSE index[u]]

(* read_response and uid_fetch_responses, then the loop body: every row
   becomes an envelope, the indexes and the unseen counter are updated and
   the batch is sent. A reply without rows fails to parse; a row without an
   ENVELOPE item (an unsolicited flags update) makes envelope.unwrap()
   panic after the rows before it were handled. *)
GetFetchRead(t) ==
    /\ th[t].op = "get" /\ th[t].pc = "fetch_read"
    /\ LET m == th[t].m
           range == FetchRange(th[t].exists)
       IN \/ /\ GetFail(t)      \* read error, NO, or no row at all
             /\ UNCHANGED <<folders, hash_index, uid_index, conn_poisoned>>
          \/ \E rows \in RowSets(range) :
               /\ hash_index' = InsertHashes(hash_index, rows, m)
               /\ uid_index' = InsertUids(uid_index, rows, m)
               /\ \/ /\ GetPanic(t)
                     /\ UNCHANGED <<folders, chan>>
                  \/ /\ rows # {}
                     /\ LET unseen == th[t].our_unseen
                                + Cardinality({r \in rows : ~r.seen})
                        IN /\ th' = [th EXCEPT
                                      ![t].pc = "fetch",
                                      ![t].our_unseen = unseen,
                                      ![t].exists = NextExists(th[t].exists)]
                           /\ folders' = [folders EXCEPT ![m].unseen = unseen]
                     /\ chan' = [chan EXCEPT ![t] =
                          Append(@, Msg("Ok", {EnvelopeOf(r, m) : r \in rows}))]
                     /\ pending' = pending \ {t}
                     /\ UNCHANGED <<conn_lock, conn_poisoned>>
    /\ UNCHANGED <<threadVars, listVars, parseVars, iterVars, lockVars, sortVars, opVars, folderVars>>
    /\ UNCHANGED <<uidvalidity, nops>>

(* The mailbox map after folders(): two selectable mailboxes and one that
   is \Noselect. *)
InitGet ==
    /\ ThreadIdle
    /\ ImapIdle
    /\ ListIdle
    /\ ParseIdle
    /\ IterIdle
    /\ LockIdle
    /\ SortIdle
    /\ FolderIdle
    /\ folders = [m \in Mailboxes |-> Folder(m = "Lists", TRUE, FALSE, FALSE)]

NextGet ==
    \E t \in Threads :
        \/ \E m \in Mailboxes : GetCall(t, m)
        \/ GetNoSelect(t)
        \/ GetLock(t)
        \/ GetSelectSend(t)
        \/ GetSelectRead(t)
        \/ GetExamineSend(t)
        \/ GetExamineRead(t)
        \/ GetFetchSend(t)
        \/ GetFetchRead(t)

SpecGet == InitGet /\ [][NextGet]_vars

-----------------------------------------------------------------------------
(***************************************************************************)
(* ImapType::refresh and ImapType::search, which share the connection      *)
(* with the get() workers.                                                 *)
(***************************************************************************)

(* A call that is not a worker returns: its guards are dropped. *)
Return(t, res) ==
    /\ th' = [th EXCEPT ![t].pc = "done", ![t].res = res]
    /\ conn_lock' = IF conn_lock = t THEN "free" ELSE conn_lock
    /\ pending' = pending \ {t}

(* refresh(), first statement: connection.lock()?.send_command(NOOP)?.
   The guard is a temporary of the statement and is dropped at its end. *)
Refresh(t) ==
    /\ Idle(t)
    /\ ExclusiveBorrow(t)
    /\ nops < MaxOps
    /\ conn_lock = "free"
    /\ nops' = nops + 1
    /\ \/ /\ ~conn_poisoned
          /\ th' = [th EXCEPT ![t] = [NoOp EXCEPT
                       !.op = "refresh", !.pc = "refresh_read",
                       !.cmds = <<Cmd("NOOP", "none")>>]]
          /\ pending' = pending \cup {t}
       \/ /\ th' = [th EXCEPT ![t] = [NoOp EXCEPT
                       !.op = "refresh", !.pc = "done", !.res = "err"]]
          /\ UNCHANGED pending
    /\ UNCHANGED <<threadVars, listVars, parseVars, iterVars, lockVars, sortVars, opVars, folderVars>>
    /\ UNCHANGED <<folders, uidvalidity, hash_index, uid_index,
                   conn_lock, conn_poisoned, chan>>

(* refresh(), second statement: connection.lock()?.read_response(..)?,
   then Err("Unimplemented."). *)
RefreshRead(t) ==
    /\ th[t].op = "refresh" /\ th[t].pc = "refresh_read"
    /\ conn_lock = "free"
    /\ Return(t, "err")
    /\ UNCHANGED <<threadVars, listVars, parseVars, iterVars, lockVars, sortVars, opVars, folderVars>>
    /\ UNCHANGED <<folders, uidvalidity, hash_index, uid_index,
                   conn_poisoned, chan, nops>>

(* search(): connection.lock()? *)
SearchLock(t, m) ==
    /\ Idle(t)
    /\ SharedBorrow(t)
    /\ nops < MaxOps
    /\ m \in DOMAIN folders
    /\ conn_lock = "free"
    /\ nops' = nops + 1
    /\ IF conn_poisoned
       THEN /\ th' = [th EXCEPT ![t] = [NoOp EXCEPT
                         !.op = "search", !.pc = "done", !.m = m,
                         !.res = "err"]]
            /\ UNCHANGED conn_lock
       ELSE /\ th' = [th EXCEPT ![t] = [NoOp EXCEPT
                         !.op = "search", !.pc = "search_examine_send",
                         !.m = m]]
            /\ conn_lock' = t
    /\ UNCHANGED <<threadVars, listVars, parseVars, iterVars, lockVars, sortVars, opVars, folderVars>>
    /\ UNCHANGED <<folders, uidvalidity, hash_index, uid_index,
                   conn_poisoned, pending, chan>>

(* search(): send_command(EXAMINE) and send_command(UID SEARCH) *)
SearchSend(t) ==
    /\ th[t].op = "search"
    /\ \/ /\ th[t].pc = "search_examine_send"
          /\ \/ Sent(t, Cmd("EXAMINE", th[t].m), "search_examine_read")
                /\ UNCHANGED conn_lock
             \/ Return(t, "err")
       \/ /\ th[t].pc = "search_send"
          /\ \/ Sent(t, Cmd("UID SEARCH", th[t].m), "search_read")
                /\ UNCHANGED conn_lock
             \/ Return(t, "err")
    /\ UNCHANGED <<threadVars, listVars, parseVars, iterVars, lockVars, sortVars, opVars, folderVars>>
    /\ UNCHANGED <<folders, uidvalidity, hash_index, uid_index,
                   conn_poisoned, chan, nops>>

(* The replies to UID SEARCH as search() reads them: no "* SEARCH" line, or
   the UIDs that parse on the first such line, in the order of the line. *)
SearchReplies ==
    {[search |-> FALSE, uids |-> <<>>]}
        \cup [search : {TRUE},
              uids : UNION {[1..n -> UidPool] : n \in 0..MaxListed}]

(* The hash of the first listed UID that is indexed, alone. *)
FirstHash(index, uids) ==
    LET known == SelectSeq(uids, LAMBDA u : u \in DOMAIN index)
    IN IF known = <<>> THEN <<>> ELSE <<index[known[1]]>>

(* filter_map(|uid| uid_index.get(&uid)): the UIDs without an entry are
   dropped, the others replaced by their hash, in order. *)
SearchHashes(index, uids) ==
    LET known == SelectSeq(uids, LAMBDA u : u \in DOMAIN index)
    IN [i \in 1..Len(known) |-> index[known[i]]]

(* search(): the two read_response calls; the second is followed by the
   scan for a "* SEARCH" line. *)
SearchRead(t) ==
    /\ th[t].op = "search"
    /\ \/ /\ th[t].pc = "search_examine_read"
          /\ \/ /\ th' = [th EXCEPT ![t].pc = "search_send"]
                /\ pending' = pending \ {t}
                /\ UNCHANGED conn_lock
             \/ Return(t, "err")
       \/ /\ th[t].pc = "search_read"
          /\ \/ Return(t, "err")
             \/ \E reply \in SearchReplies :
                  /\ th' = [th EXCEPT
                         ![t].pc = "done",
                         ![t].res = IF reply.search THEN "ok" ELSE "err",
                         ![t].reply = reply,
                         ![t].hashes = IF reply.search
                                       THEN SearchHashes(uid_index, reply.uids)
                                       ELSE <<>>]
                  /\ conn_lock' = "free"
                  /\ pending' = pending \ {t}
    /\ UNCHANGED <<threadVars, listVars, parseVars, iterVars, lockVars, sortVars, opVars, folderVars>>
    /\ UNCHANGED <<folders, uidvalidity, hash_index, uid_index,
                   conn_poisoned, chan, nops>>

(* One selectable mailbox, used by get(), search() and refresh(). *)
InitConn ==
    /\ ThreadIdle
    /\ ImapIdle
    /\ ListIdle
    /\ ParseIdle
    /\ IterIdle
    /\ LockIdle
    /\ SortIdle
    /\ FolderIdle
    /\ folders = [m \in {"INBOX"} |-> Folder(FALSE, TRUE, FALSE, FALSE)]

NextConn ==
    \E t \in Threads :
        \/ \E m \in Mailboxes : GetCall(t, m)
        \/ GetLock(t)
        \/ GetSelectSend(t)
        \/ GetSelectRead(t)
        \/ GetExamineSend(t)
        \/ GetExamineRead(t)
        \/ GetFetchSend(t)
        \/ GetFetchRead(t)
        \/ Refresh(t)
        \/ RefreshRead(t)
        \/ \E m \in Mailboxes : SearchLock(t, m)
        \/ SearchSend(t)
        \/ SearchRead(t)

SpecConn == InitConn /\ [][NextConn]_vars

(* get() and search() on the two selectable mailboxes of InitGet, which
   share the UID store. *)
NextStore ==
    \/ NextGet
    \/ \E t \in Threads :
          \/ \E m \in Mailboxes : SearchLock(t, m)
          \/ SearchSend(t)
          \/ SearchRead(t)

SpecStore == InitGet /\ [][NextStore]_vars

-----------------------------------------------------------------------------
(***************************************************************************)
(* ImapType::save: the lookup of the target mailbox, then the APPEND       *)
(* conversation under the connection guard, one step per blocking point.   *)
(***************************************************************************)

(* The lookup finds the mailbox, whatever its permissions. *)
SaveKnown(map, folder) == folder \in DOMAIN map

(* The lookup finds the mailbox and messages may be created in it. *)
SaveAllowed(map, folder) ==
    folder \in DOMAIN map /\ map[folder].create_messages

(* What save puts on and takes off the wire, in the order of its
   statements: the APPEND command, the continuation request, the literal
   and the tagged response. *)
SaveConversation(path) ==
    <<Cmd("APPEND", path), Cmd("+", "none"),
      Cmd("literal", path), Cmd("tagged", "none")>>

(* save(): the mailbox is looked up by path or name under the folders read
   lock; an unknown one and one without create_messages are errors. *)
SaveCall(t, folder) ==
    /\ Idle(t)
    /\ SharedBorrow(t)
    /\ nops < MaxOps
    /\ nops' = nops + 1
    /\ th' = [th EXCEPT ![t] = [NoOp EXCEPT
                 !.op = "save", !.m = folder,
                 !.pc = IF SaveAllowed(folders, folder)
                        THEN "save_lock" ELSE "done",
                 !.res = IF SaveAllowed(folders, folder)
                         THEN "none" ELSE "err"]]
    /\ UNCHANGED <<threadVars, listVars, parseVars, iterVars, lockVars, sortVars, opVars, folderVars>>
    /\ UNCHANGED <<folders, uidvalidity, hash_index, uid_index, conn_lock,
                   conn_poisoned, pending, chan>>

(* save(): connection.lock().unwrap() *)
SaveLock(t) ==
    /\ th[t].op = "save" /\ th[t].pc = "save_lock"
    /\ conn_lock = "free"
    /\ IF conn_poisoned
       THEN /\ th' = [th EXCEPT ![t].pc = "panicked", ![t].res = "panic"]
            /\ UNCHANGED conn_lock
       ELSE /\ th' = [th EXCEPT ![t].pc = "save_append"]
            /\ conn_lock' = t
    /\ UNCHANGED <<threadVars, listVars, parseVars, iterVars, lockVars, sortVars, opVars, folderVars>>
    /\ UNCHANGED <<folders, uidvalidity, hash_index, uid_index,
                   conn_poisoned, pending, chan, nops>>

(* The next statement of the conversation succeeds, or fails and save
   returns the error; the guard is dropped on return. *)
SaveStep(t, pc, next_pc) ==
    /\ th[t].op = "save" /\ th[t].pc = pc
    /\ \/ /\ th' = [th EXCEPT
                      ![t].pc = next_pc,
                      ![t].res = IF next_pc = "done" THEN "ok" ELSE @,
                      ![t].cmds = Append(@, SaveConversation(th[t].m)[Len(@) + 1])]
          /\ conn_lock' = IF next_pc = "done" THEN "free" ELSE conn_lock
          /\ pending' = IF next_pc = "done" THEN pending \ {t}
                                            ELSE pending \cup {t}
       \/ Return(t, "err")
    /\ UNCHANGED <<threadVars, listVars, parseVars, iterVars, lockVars, sortVars, opVars, folderVars>>
    /\ UNCHANGED <<folders, uidvalidity, hash_index, uid_index,
                   conn_poisoned, chan, nops>>

(* save(): send_command(APPEND "path" (flags) {len}) *)
SaveAppend(t) == SaveStep(t, "save_append", "save_wait")

(* save(): wait_for_continuation_request() *)
SaveContinuation(t) == SaveStep(t, "save_wait", "save_literal")

(* save(): send_literal(bytes) *)
SaveLiteral(t) == SaveStep(t, "save_literal", "save_read")

(* save(): read_response(), Ok(()) *)
SaveRead(t) == SaveStep(t, "save_read", "done")

(* The mailbox INBOX is listed; a SELECT has set its permissions or an
   EXAMINE has left create_messages false. *)
InitSave ==
    /\ ThreadIdle
    /\ ImapIdle
    /\ ListIdle
    /\ ParseIdle
    /\ IterIdle
    /\ LockIdle
    /\ SortIdle
    /\ FolderIdle
    /\ \E cm \in BOOLEAN :
         folders = [m \in {"INBOX"} |->
                      [Folder(FALSE, TRUE, FALSE, FALSE)
                         EXCEPT !.create_messages = cm]]

NextSave ==
    \E t \in Threads :
        \/ \E m \in Mailboxes : SaveCall(t, m)
        \/ SaveLock(t)
        \/ SaveAppend(t)
        \/ SaveContinuation(t)
        \/ SaveLiteral(t)
        \/ SaveRead(t)
        \/ \E m \in Mailboxes : SearchLock(t, m)
        \/ SearchSend(t)
        \/ SearchRead(t)

SpecSave == InitSave /\ [][NextSave]_vars

-----------------------------------------------------------------------------
(***************************************************************************)
(* ImapOp (imap/operations.rs): as_bytes, fetch_flags, set_flag, set_tag.  *)
(* One step per blocking point; the conversation held under the connection *)
(* guard is one step.                                                      *)
(***************************************************************************)
ImapOps == {"as_bytes", "fetch_flags", "set_flag", "set_tag"}

FlagValues == {"seen", "unseen"}

(* The bits of Flag that set_flag is called with. *)
FlagBits == {"SEEN", "FLAGGED"}

(* A Flag value and the bits that are set in it. *)
Bits(flags) ==
    CASE flags = "unseen" -> {}
      [] flags = "seen" -> {"SEEN"}
      [] flags = "flagged" -> {"FLAGGED"}
      [] flags = "seen flagged" -> {"SEEN", "FLAGGED"}

FlagOf(bits) ==
    CHOOSE flags \in {"unseen", "seen", "flagged", "seen flagged"} :
        Bits(flags) = bits

(* The same call with the bit inserted whatever the value. *)
flag_insert(flags, f, value) == FlagOf(Bits(flags) \cup {f})

(* Flag::set(f, value): the bit is inserted or removed. *)
flag_set(flags, f, value) ==
    FlagOf(IF value THEN Bits(flags) \cup {f} ELSE Bits(flags) \ {f})

Tags == {"tag"}

(* EnvelopeCache::default() *)
EmptyEntry == [bytes |-> "none", flags |-> "none"]

(* byte_cache.entry(uid).or_default(): an absent key is inserted. *)
Entry(cache, uid) ==
    IF uid \in DOMAIN cache THEN cache ELSE Put(cache, uid, EmptyEntry)

(* The first position of each operation. *)
FirstPc(op) ==
    CASE op = "as_bytes" -> "ab_lock"
      [] op = "fetch_flags" -> "ff_check"
      [] op = "set_flag" -> "ff_check"
      [] op = "set_tag" -> "st_try_lock"

(* The position after try_lock succeeded. *)
AfterTryLock(pc) ==
    CASE pc = "ab_try_lock" -> "ab_fetch"
      [] pc = "ff_try_lock" -> "ff_fetch"
      [] pc = "sf_try_lock" -> "sf_store"
      [] pc = "st_try_lock" -> "st_store"

TryLockPcs == {"ab_try_lock", "ff_try_lock", "sf_try_lock", "st_try_lock"}

(* The operation returns or unwinds: every guard it holds is dropped; a
   guard dropped by a panic poisons its mutex. *)
OpEnd(t, pc, res) ==
    /\ th' = [th EXCEPT ![t].pc = pc, ![t].res = res]
    /\ conn_lock' = IF conn_lock = t THEN "free" ELSE conn_lock
    /\ cache_lock' = IF cache_lock = t THEN "free" ELSE cache_lock
    /\ conn_poisoned' = (conn_poisoned \/ (pc = "panicked" /\ conn_lock = t))
    /\ cache_poisoned' =
           (cache_poisoned \/ (pc = "panicked" /\ cache_lock = t))

(* A get() worker takes the connection (imap.rs, connection.lock()) ... *)
WorkerLock ==
    /\ conn_lock = "free" /\ ~conn_poisoned
    /\ conn_lock' = "worker"
    /\ UNCHANGED <<threadVars, listVars, parseVars, iterVars, lockVars, sortVars, folderVars>>
    /\ UNCHANGED <<folders, uidvalidity, hash_index, uid_index,
                   conn_poisoned, pending, chan, th, nops, byte_cache,
                   cache_lock, cache_poisoned, tag_index>>

(* ... and drops it when its loop ends; nothing bounds the time between. *)
WorkerUnlock ==
    /\ conn_lock = "worker"
    /\ conn_lock' = "free"
    /\ th' = [t \in Threads |-> [th[t] EXCEPT !.starved = FALSE]]
    /\ UNCHANGED <<threadVars, listVars, parseVars, iterVars, lockVars, sortVars, folderVars>>
    /\ UNCHANGED <<folders, uidvalidity, hash_index, uid_index,
                   conn_poisoned, pending, chan, nops, byte_cache,
                   cache_lock, cache_poisoned, tag_index>>

(* History: what the operation looks up is in the cache when it is called
   (the bytes for as_bytes, the flags for the others). *)
Holds(cache, op, uid) ==
    /\ uid \in DOMAIN cache
    /\ IF op = "as_bytes" THEN cache[uid].bytes # "none"
                          ELSE cache[uid].flags # "none"

(* An ImapOp method is called for a UID, as one of at most max calls. *)
OpCallUpTo(t, op, uid, max) ==
    /\ Idle(t)
    /\ nops < max
    /\ nops' = nops + 1
    /\ th' = [th EXCEPT ![t] = [NoOp EXCEPT
                 !.op = op, !.pc = FirstPc(op), !.m = "INBOX", !.uid = uid,
                 !.starved = (conn_lock = "worker"),
                 !.held = Holds(byte_cache, op, uid)]]
    /\ UNCHANGED <<threadVars, listVars, parseVars, iterVars, lockVars, sortVars, folderVars, opVars>>
    /\ UNCHANGED <<folders, uidvalidity, hash_index, uid_index, conn_lock,
                   conn_poisoned, pending, chan>>

OpCall(t, op, uid) == OpCallUpTo(t, op, uid, MaxOps)

(* try_lock(&connection, 2 s): the mutex is free. *)
TryLock(t) ==
    /\ th[t].op \in ImapOps /\ th[t].pc \in TryLockPcs
    /\ conn_lock = "free"
    /\ IF conn_poisoned
       THEN OpEnd(t, "done", "err")
       ELSE /\ th' = [th EXCEPT ![t].pc = AfterTryLock(th[t].pc)]
            /\ conn_lock' = t
            /\ UNCHANGED <<cache_lock, conn_poisoned, cache_poisoned>>
    /\ UNCHANGED <<threadVars, listVars, parseVars, iterVars, lockVars, sortVars, folderVars>>
    /\ UNCHANGED <<folders, uidvalidity, hash_index, uid_index, pending,
                   chan, nops, byte_cache, tag_index>>

(* try_lock: the mutex stayed taken for the whole wait. *)
TryLockTimeout(t) ==
    /\ th[t].op \in ImapOps /\ th[t].pc \in TryLockPcs
    /\ conn_lock # "free"
    /\ OpEnd(t, "done", "timeout")
    /\ UNCHANGED <<threadVars, listVars, parseVars, iterVars, lockVars, sortVars, folderVars>>
    /\ UNCHANGED <<folders, uidvalidity, hash_index, uid_index, pending,
                   chan, nops, byte_cache, tag_index>>

(* as_bytes: byte_cache.lock()?, entry(uid).or_default() and the hit test.
   The guard lives to the end of the function. *)
AsBytesLock(t) ==
    /\ th[t].op = "as_bytes" /\ th[t].pc = "ab_lock"
    /\ cache_lock = "free"
    /\ IF cache_poisoned
       THEN OpEnd(t, "done", "err") /\ UNCHANGED byte_cache
       ELSE LET cache == Entry(byte_cache, th[t].uid)
            IN /\ byte_cache' = cache
               /\ IF cache[th[t].uid].bytes = "none"
                  THEN /\ th' = [th EXCEPT
                                   ![t].pc = "ab_try_lock",
                                   ![t].touched = (cache # byte_cache)]
                       /\ cache_lock' = t
                  ELSE /\ th' = [th EXCEPT
                                   ![t].pc = "done", ![t].res = "bytes",
                                   ![t].val = cache[th[t].uid].bytes]
                       /\ cache_lock' = "free"
               /\ UNCHANGED <<conn_lock, conn_poisoned, cache_poisoned>>
    /\ UNCHANGED <<threadVars, listVars, parseVars, iterVars, lockVars, sortVars, folderVars>>
    /\ UNCHANGED <<folders, uidvalidity, hash_index, uid_index, pending,
                   chan, nops, tag_index>>

(* as_bytes: examine_mailbox, UID FETCH uid (FLAGS RFC822), read_response;
   the connection guard is dropped; uid_fetch_response and the asserts. *)
AsBytesFetch(t) ==
    /\ th[t].op = "as_bytes" /\ th[t].pc = "ab_fetch"
    /\ \/ OpEnd(t, "done", "err")             \* I/O or parse error
       \/ /\ conn_lock' = "free"              \* another UID: assert_eq!
          /\ cache_lock' = "free"
          /\ cache_poisoned' = TRUE
          /\ th' = [th EXCEPT ![t].pc = "panicked", ![t].res = "panic"]
          /\ UNCHANGED conn_poisoned
       \/ \E f \in FlagValues :
            /\ th' = [th EXCEPT ![t].pc = "ab_relock", ![t].val = f,
                         ![t].cmds = <<Cmd("EXAMINE", th[t].m),
                                       Cmd("UID FETCH", th[t].uid)>>]
            /\ conn_lock' = "free"
            /\ UNCHANGED <<cache_lock, conn_poisoned, cache_poisoned>>
    /\ UNCHANGED <<threadVars, listVars, parseVars, iterVars, lockVars, sortVars, folderVars>>
    /\ UNCHANGED <<folders, uidvalidity, hash_index, uid_index, pending,
                   chan, nops, byte_cache, tag_index>>

(* as_bytes: the second byte_cache.lock()?, the stores and the return.
   Locking a std Mutex that the same thread holds either panics or never
   returns. *)
AsBytesRelock(t) ==
    /\ th[t].op = "as_bytes" /\ th[t].pc = "ab_relock"
    /\ IF cache_lock = t
       THEN /\ \/ OpEnd(t, "panicked", "panic")
               \/ /\ th' = [th EXCEPT ![t].pc = "deadlocked"]
                  /\ UNCHANGED <<conn_lock, cache_lock, conn_poisoned,
                                 cache_poisoned>>
            /\ UNCHANGED byte_cache
       ELSE /\ cache_lock = "free"
            /\ byte_cache' = [Entry(byte_cache, th[t].uid) EXCEPT
                                ![th[t].uid] = [bytes |-> "rfc822",
                                                flags |-> th[t].val]]
            /\ OpEnd(t, "done", "bytes")
    /\ UNCHANGED <<threadVars, listVars, parseVars, iterVars, lockVars, sortVars, folderVars>>
    /\ UNCHANGED <<folders, uidvalidity, hash_index, uid_index, pending,
                   chan, nops, tag_index>>

(* fetch_flags (and the fetch_flags that set_flag awaits first): the
   block that locks byte_cache, inserts the entry and tests entry.flags. *)
FetchFlagsCheck(t) ==
    /\ th[t].op \in {"fetch_flags", "set_flag"} /\ th[t].pc = "ff_check"
    /\ cache_lock = "free"
    /\ IF cache_poisoned
       THEN OpEnd(t, "done", "err") /\ UNCHANGED byte_cache
       ELSE LET cache == Entry(byte_cache, th[t].uid)
            IN /\ byte_cache' = cache
               /\ th' = [th EXCEPT
                           ![t].pc = IF cache[th[t].uid].flags = "none"
                                     THEN "ff_try_lock" ELSE "ff_read",
                           ![t].touched = (cache # byte_cache)]
               /\ UNCHANGED <<conn_lock, cache_lock, conn_poisoned,
                              cache_poisoned>>
    /\ UNCHANGED <<threadVars, listVars, parseVars, iterVars, lockVars, sortVars, folderVars>>
    /\ UNCHANGED <<folders, uidvalidity, hash_index, uid_index, pending,
                   chan, nops, tag_index>>

(* The replies to UID FETCH uid FLAGS as uid_fetch_flags_response returns
   them: the FETCH responses, each with its UID and its flags. *)
FetchReplies ==
    UNION {[1..n -> [uid : UidPool, flags : FlagValues]] : n \in 0..MaxResponses}

(* The same test passing every reply that has a first response. *)
AtLeastOne(v) == Len(v) >= 1

(* The length test of fetch_flags: v.len() != 1 is an error. *)
ExactlyOne(v) == Len(v) = 1

(* History: the number of FETCH responses in the reply v and, of a single
   response, the UID it is for. *)
Shape(v) ==
    [responses |-> Len(v), uid |-> IF Len(v) = 1 THEN v[1].uid ELSE NONE]

(* The operation ends, having sent cmds and parsed the reply v. *)
OpEndAfter(t, pc, res, cmds, v) ==
    /\ th' = [th EXCEPT ![t].pc = pc, ![t].res = res, ![t].cmds = cmds,
                        ![t].v = Shape(v)]
    /\ conn_lock' = IF conn_lock = t THEN "free" ELSE conn_lock
    /\ cache_lock' = IF cache_lock = t THEN "free" ELSE cache_lock
    /\ conn_poisoned' = (conn_poisoned \/ (pc = "panicked" /\ conn_lock = t))
    /\ cache_poisoned' =
           (cache_poisoned \/ (pc = "panicked" /\ cache_lock = t))

(* fetch_flags: examine_mailbox, UID FETCH uid FLAGS, read_response,
   uid_fetch_flags_response, the length test and the assert. *)
FetchFlagsFetch(t) ==
    /\ th[t].op \in {"fetch_flags", "set_flag"} /\ th[t].pc = "ff_fetch"
    /\ \/ OpEnd(t, "done", "err")       \* I/O error
       \/ \E v \in FetchReplies :
            LET cmds == <<Cmd("EXAMINE", th[t].m),
                          Cmd("UID FETCH", th[t].uid)>>
            IN IF ~ExactlyOne(v)
               THEN OpEndAfter(t, "done", "err", cmds, v)
               ELSE IF v[1].uid # th[t].uid       \* assert_eq!
               THEN OpEndAfter(t, "panicked", "panic", cmds, v)
               ELSE /\ th' = [th EXCEPT ![t].pc = "ff_store",
                                ![t].val = v[1].flags,
                                ![t].cmds = cmds, ![t].v = Shape(v)]
                    /\ UNCHANGED <<conn_lock, cache_lock, conn_poisoned,
                                   cache_poisoned>>
    /\ UNCHANGED <<threadVars, listVars, parseVars, iterVars, lockVars, sortVars, folderVars>>
    /\ UNCHANGED <<folders, uidvalidity, hash_index, uid_index, pending,
                   chan, nops, byte_cache, tag_index>>

(* fetch_flags: byte_cache.lock()?, entry.flags = Some(flags); the cache
   and the connection guards end with the block. *)
FetchFlagsStore(t) ==
    /\ th[t].op \in {"fetch_flags", "set_flag"} /\ th[t].pc = "ff_store"
    /\ cache_lock = "free"
    /\ IF cache_poisoned
       THEN OpEnd(t, "done", "err") /\ UNCHANGED byte_cache
       ELSE /\ byte_cache' = [Entry(byte_cache, th[t].uid) EXCEPT
                                ![th[t].uid].flags = th[t].val]
            /\ th' = [th EXCEPT ![t].pc = "ff_read", ![t].touched = TRUE]
            /\ conn_lock' = "free"
            /\ UNCHANGED <<cache_lock, conn_poisoned, cache_poisoned>>
    /\ UNCHANGED <<threadVars, listVars, parseVars, iterVars, lockVars, sortVars, folderVars>>
    /\ UNCHANGED <<folders, uidvalidity, hash_index, uid_index, pending,
                   chan, nops, tag_index>>

(* fetch_flags: the last block reads entry.flags and unwraps it.  set_flag
   goes on with flags.set(f, value). *)
FetchFlagsRead(t) ==
    /\ th[t].op \in {"fetch_flags", "set_flag"} /\ th[t].pc = "ff_read"
    /\ cache_lock = "free"
    /\ IF cache_poisoned
       THEN OpEnd(t, "done", "err") /\ UNCHANGED byte_cache
       ELSE LET cache == Entry(byte_cache, th[t].uid)
            IN /\ byte_cache' = cache
               /\ IF cache[th[t].uid].flags = "none"
                  THEN OpEnd(t, "panicked", "panic")
                  ELSE IF th[t].op = "fetch_flags"
                  THEN /\ th' = [th EXCEPT
                                   ![t].pc = "done", ![t].res = "flags",
                                   ![t].val = cache[th[t].uid].flags]
                       /\ UNCHANGED <<conn_lock, cache_lock, conn_poisoned,
                                      cache_poisoned>>
                  ELSE \E f \in FlagBits, value \in BOOLEAN :
                       /\ th' = [th EXCEPT
                              ![t].pc = "sf_try_lock",
                              ![t].val = flag_set(cache[th[t].uid].flags,
                                                  f, value),
                              ![t].set = [f |-> f, value |-> value,
                                          prev |-> cache[th[t].uid].flags]]
                       /\ UNCHANGED <<conn_lock, cache_lock, conn_poisoned,
                                      cache_poisoned>>
    /\ UNCHANGED <<threadVars, listVars, parseVars, iterVars, lockVars, sortVars, folderVars>>
    /\ UNCHANGED <<folders, uidvalidity, hash_index, uid_index, pending,
                   chan, nops, tag_index>>

(* set_flag: select_mailbox, UID STORE uid FLAGS.SILENT, read_response and
   uid_fetch_flags_response. *)
SetFlagStore(t) ==
    /\ th[t].op = "set_flag" /\ th[t].pc = "sf_store"
    /\ \/ OpEnd(t, "done", "err")
       \/ /\ th' = [th EXCEPT ![t].pc = "sf_cache",
                       ![t].cmds = @ \o <<Cmd("SELECT", th[t].m),
                                          Cmd("UID STORE",
                                              [uid |-> th[t].uid,
                                               flags |-> th[t].val])>>]
          /\ UNCHANGED <<conn_lock, cache_lock, conn_poisoned,
                         cache_poisoned>>
    /\ UNCHANGED <<threadVars, listVars, parseVars, iterVars, lockVars, sortVars, folderVars>>
    /\ UNCHANGED <<folders, uidvalidity, hash_index, uid_index, pending,
                   chan, nops, byte_cache, tag_index>>

(* set_flag: byte_cache.lock()?, entry.flags = Some(flags), Ok(()). *)
SetFlagCache(t) ==
    /\ th[t].op = "set_flag" /\ th[t].pc = "sf_cache"
    /\ cache_lock = "free"
    /\ IF cache_poisoned
       THEN OpEnd(t, "done", "err") /\ UNCHANGED byte_cache
       ELSE /\ byte_cache' = [Entry(byte_cache, th[t].uid) EXCEPT
                                ![th[t].uid].flags = th[t].val]
            /\ th' = [th EXCEPT ![t].pc = "done", ![t].res = "ok",
                                ![t].touched = TRUE]
            /\ conn_lock' = "free"
            /\ UNCHANGED <<cache_lock, conn_poisoned, cache_poisoned>>
    /\ UNCHANGED <<threadVars, listVars, parseVars, iterVars, lockVars, sortVars, folderVars>>
    /\ UNCHANGED <<folders, uidvalidity, hash_index, uid_index, pending,
                   chan, nops, tag_index>>

(* set_tag: select_mailbox, UID STORE uid +/-FLAGS.SILENT (tag),
   read_response, uid_fetch_flags_response, and the tag_index update. *)
SetTagStore(t) ==
    /\ th[t].op = "set_tag" /\ th[t].pc = "st_store"
    /\ \/ OpEnd(t, "done", "err") /\ UNCHANGED tag_index
       \/ \E tag \in Tags, value \in BOOLEAN :
            /\ tag_index' = IF value THEN tag_index \cup {tag}
                                     ELSE tag_index \ {tag}
            /\ th' = [th EXCEPT ![t].pc = "done", ![t].res = "ok",
                         ![t].cmds = <<Cmd("SELECT", th[t].m),
                                       Cmd("UID STORE", th[t].uid)>>]
            /\ conn_lock' = "free"
            /\ UNCHANGED <<cache_lock, conn_poisoned, cache_poisoned>>
    /\ UNCHANGED <<threadVars, listVars, parseVars, iterVars, lockVars, sortVars, folderVars>>
    /\ UNCHANGED <<folders, uidvalidity, hash_index, uid_index, pending,
                   chan, nops, byte_cache>>

(* The steps of the operation that runs on thread t. *)
OpStep(t) ==
    \/ TryLock(t)
    \/ TryLockTimeout(t)
    \/ AsBytesLock(t)
    \/ AsBytesFetch(t)
    \/ AsBytesRelock(t)
    \/ FetchFlagsCheck(t)
    \/ FetchFlagsFetch(t)
    \/ FetchFlagsStore(t)
    \/ FetchFlagsRead(t)
    \/ SetFlagStore(t)
    \/ SetFlagCache(t)
    \/ SetTagStore(t)

(* The rows of a FETCH reply with the keywords of each message. *)
TaggedRowSets(range) ==
    {rows \in SUBSET [uid : {u \in UidPool : range[1] <= u /\ u <= range[2]},
                      seen : BOOLEAN, keywords : SUBSET Tags] :
        \A a, b \in rows : a.uid = b.uid => a = b}

(* The envelope of a row with its labels: env.labels_mut().push(hash) for
   every keyword, the tag hash taken as collision-free. *)
TaggedEnvelopeOf(row, m) ==
    [hash |-> EnvHash(row.uid, m), uid |-> row.uid, mailbox |-> m,
     seen |-> row.seen, labels |-> row.keywords]

(* The loop body of get() with the keywords: a keyword that is not in the
   tag index is inserted, every row becomes an envelope with its labels,
   the indexes and the unseen counter are updated and the batch is sent. *)
GetFetchReadTagged(t) ==
    /\ th[t].op = "get" /\ th[t].pc = "fetch_read"
    /\ LET m == th[t].m
           range == FetchRange(th[t].exists)
       IN \/ /\ GetFail(t)
             /\ UNCHANGED <<folders, hash_index, uid_index, conn_poisoned,
                            tag_index>>
          \/ \E rows \in TaggedRowSets(range) :
               /\ tag_index' = tag_index \cup UNION {r.keywords : r \in rows}
               /\ hash_index' = InsertHashes(hash_index, rows, m)
               /\ uid_index' = InsertUids(uid_index, rows, m)
               /\ \/ /\ GetPanic(t)
                     /\ UNCHANGED <<folders, chan>>
                  \/ /\ rows # {}
                     /\ LET unseen == th[t].our_unseen
                                + Cardinality({r \in rows : ~r.seen})
                        IN /\ th' = [th EXCEPT
                                      ![t].pc = "fetch",
                                      ![t].our_unseen = unseen,
                                      ![t].exists = NextExists(th[t].exists)]
                           /\ folders' = [folders EXCEPT ![m].unseen = unseen]
                     /\ chan' = [chan EXCEPT ![t] =
                          Append(@, Msg("Ok",
                                        {TaggedEnvelopeOf(r, m) : r \in rows}))]
                     /\ pending' = pending \ {t}
                     /\ UNCHANGED <<conn_lock, conn_poisoned>>
    /\ UNCHANGED <<threadVars, listVars, parseVars, iterVars, lockVars,
                   sortVars, folderVars>>
    /\ UNCHANGED <<uidvalidity, nops, byte_cache, cache_lock, cache_poisoned>>

(* get() on the mailbox and set_tag on its messages, which share the tag
   index. *)
NextTags ==
    \E t \in Threads :
        \/ GetCall(t, "INBOX")
        \/ GetLock(t)
        \/ GetSelectSend(t)
        \/ GetSelectRead(t)
        \/ GetExamineSend(t)
        \/ GetExamineRead(t)
        \/ GetFetchSend(t)
        \/ GetFetchReadTagged(t)
        \/ \E uid \in UidPool : OpCall(t, "set_tag", uid)
        \/ TryLock(t)
        \/ TryLockTimeout(t)
        \/ SetTagStore(t)

SpecTags == InitConn /\ [][NextTags]_vars

InitOp ==
    /\ ThreadIdle
    /\ ImapIdle
    /\ ListIdle
    /\ ParseIdle
    /\ IterIdle
    /\ LockIdle
    /\ SortIdle
    /\ FolderIdle
    /\ folders = [m \in {"INBOX"} |-> Folder(FALSE, TRUE, FALSE, FALSE)]

NextOp ==
    \/ WorkerLock
    \/ WorkerUnlock
    \/ \E t \in Threads :
         \/ \E op \in ImapOps, uid \in UidPool : OpCall(t, op, uid)
         \/ TryLock(t)
         \/ TryLockTimeout(t)
         \/ AsBytesLock(t)
         \/ AsBytesFetch(t)
         \/ AsBytesRelock(t)
         \/ FetchFlagsCheck(t)
         \/ FetchFlagsFetch(t)
         \/ FetchFlagsStore(t)
         \/ FetchFlagsRead(t)
         \/ SetFlagStore(t)
         \/ SetFlagCache(t)
         \/ SetTagStore(t)

SpecOp == InitOp /\ [][NextOp]_vars

(* The ImapOp calls alone, one more of them and no get() worker. *)
NextLookup ==
    \E t \in Threads :
        \/ \E op \in ImapOps, uid \in UidPool :
              OpCallUpTo(t, op, uid, MaxLookups)
        \/ TryLock(t)
        \/ TryLockTimeout(t)
        \/ AsBytesLock(t)
        \/ AsBytesFetch(t)
        \/ AsBytesRelock(t)
        \/ FetchFlagsCheck(t)
        \/ FetchFlagsFetch(t)
        \/ FetchFlagsStore(t)
        \/ FetchFlagsRead(t)
        \/ SetFlagStore(t)
        \/ SetFlagCache(t)
        \/ SetTagStore(t)

SpecLookup == InitOp /\ [][NextLookup]_vars

(* Every thread that can take a step of its operation takes one; nothing
   makes a get() worker give the connection back. *)
SpecOpFair == SpecOp /\ \A t \in Threads : WF_vars(OpStep(t))

-----------------------------------------------------------------------------
(***************************************************************************)
(* Mailbox management: create_folder, delete_folder, rename_folder,        *)
(* set_folder_subscription, set_folder_permissions.  Each takes &mut self  *)
(* and holds the folders write lock, so a call is one step.                *)
(***************************************************************************)
Rights == [del : BOOLEAN, chg : BOOLEAN]

(* The thread that owns the backend object and calls its &mut self
   methods one after the other. *)
Callers == {"t1"}

(* ImapType.is_subscribed, the subscription predicate of the account's
   configuration: this account takes every mailbox. *)
is_subscribed(path) == TRUE

(* "Lists" is the \Noselect name of the hierarchy. *)
NoSelect(path) == path = "Lists"

(* folders() on an empty cache: imap_folders (LIST, then LSUB, which skips
   \Noselect names), with the configured subscription filter keeping every
   mailbox. *)
Listed(srv) ==
    [path \in {x \in srv.mailboxes : is_subscribed(x)} |->
        Folder(NoSelect(path),
               path \in srv.subscribed /\ ~NoSelect(path),
               srv.rights[path].del, srv.rights[path].chg)]

(* Whether the server can answer OK to a command. *)
Accepts(srv, c) ==
    CASE c.cmd = "CREATE" -> c.arg \notin srv.mailboxes
      [] c.cmd \in {"DELETE", "SELECT", "EXAMINE"} -> c.arg \in srv.mailboxes
      [] c.cmd = "RENAME" -> /\ c.arg[1] \in srv.mailboxes
                             /\ c.arg[2] \notin srv.mailboxes
      [] OTHER -> TRUE

(* The server after it answered OK to a command. *)
Effect(srv, c) ==
    CASE c.cmd = "CREATE" ->
            [srv EXCEPT !.mailboxes = @ \cup {c.arg}]
      [] c.cmd = "DELETE" ->
            [srv EXCEPT !.mailboxes = @ \ {c.arg}]
      [] c.cmd = "RENAME" ->
            [srv EXCEPT !.mailboxes = (@ \ {c.arg[1]}) \cup {c.arg[2]}]
      [] c.cmd = "SUBSCRIBE" ->
            [srv EXCEPT !.subscribed = @ \cup {c.arg}]
      [] c.cmd = "UNSUBSCRIBE" ->
            [srv EXCEPT !.subscribed = @ \ {c.arg}]
      [] OTHER -> srv

(* The server after a sequence of commands with the given tagged replies. *)
RECURSIVE Serve(_, _, _)
Serve(srv, cmds, replies) ==
    IF cmds = <<>>
    THEN srv
    ELSE Serve(IF Head(replies) = "OK" THEN Effect(srv, Head(cmds)) ELSE srv,
               Tail(cmds), Tail(replies))

RECURSIVE Possible(_, _, _)
Possible(srv, cmds, replies) ==
    \/ cmds = <<>>
    \/ /\ Head(replies) = "OK" => Accepts(srv, Head(cmds))
       /\ Possible(Serve(srv, <<Head(cmds)>>, <<Head(replies)>>),
                   Tail(cmds), Tail(replies))

(* The ways a conversation can go: the first k commands are sent and
   answered OK or NO (send_command and read_response return Ok(()) for
   both); command k + 1, if any, fails to be sent. *)
Conversations(srv, plan) ==
    UNION {{[sent |-> SubSeq(plan, 1, k), replies |-> r] :
              r \in {x \in [1..k -> {"OK", "NO"}] :
                        Possible(srv, SubSeq(plan, 1, k), x)}}
           : k \in 0..Len(plan)}

(* ImapResponse::from(&response).into(): the last line of the buffer, which
   is the tagged reply to the last command, decides. *)
LastReply(c) == c.replies[Len(c.replies)]

(* What the call leaves: the thread's record and the history. *)
FolderOpDone(t, op, m, cmds, res) ==
    /\ th' = [th EXCEPT ![t] = [NoOp EXCEPT !.op = op, !.pc = "done",
                                  !.m = m, !.cmds = cmds, !.res = res]]
    /\ pre' = [t |-> t, folders |-> folders,
               agreed |-> (folders = Listed(server)),
               listed |-> FALSE, ret |-> {}]
    /\ nops' = nops + 1

(* A handler that keeps the cached map instead of listing again. *)
KeepCache(srv) == folders

(* folders.clear() followed by self.folders(): the map is listed anew. *)
Relist(srv) == Listed(srv)

(* A conversation, then on OK folders.clear() and self.folders(), whose
   LIST or LSUB may fail and leave the cleared map. *)
ConverseAndRelist(t, op, m, plan) ==
    \E c \in Conversations(server, plan) :
        /\ server' = Serve(server, c.sent, c.replies)
        /\ IF Len(c.sent) < Len(plan) \/ LastReply(c) = "NO"
           THEN /\ folders' = folders
                /\ FolderOpDone(t, op, m, c.sent, "err")
           ELSE \/ /\ folders' = Relist(server')
                   /\ FolderOpDone(t, op, m,
                        c.sent \o <<Cmd("LIST", "*"), Cmd("LSUB", "*")>>,
                        "ok")
                \/ /\ folders' = << >>
                   /\ FolderOpDone(t, op, m,
                        Append(c.sent, Cmd("LIST", "*")), "err")

(* Handlers that go on without looking at the permissions. *)
DeleteUnchecked(f) == TRUE

RenameUnchecked(f) == TRUE

(* The permission tests of the handlers. *)
DeleteAllowed(f) == f.delete_mailbox

RenameAllowed(f) == f.delete_mailbox

ChangeAllowed(f) == f.change_permissions

CreateFolder(t, path) ==
    /\ Idle(t) /\ nops < MaxOps
    /\ IF path \in DOMAIN folders
       THEN /\ FolderOpDone(t, "create_folder", path, <<>>, "err")
            /\ UNCHANGED <<folders, server>>
       ELSE ConverseAndRelist(t, "create_folder", path,
                <<Cmd("CREATE", path), Cmd("SUBSCRIBE", path)>>)
    /\ UNCHANGED <<threadVars, listVars, parseVars, iterVars, lockVars, sortVars, opVars>>
    /\ UNCHANGED <<uidvalidity, hash_index, uid_index, conn_lock,
                   conn_poisoned, pending, chan>>

(* The commands of delete_folder for a mailbox record. *)
DeletePlan(m, f, unselect) ==
    (IF f.is_subscribed THEN <<Cmd("UNSUBSCRIBE", m)>> ELSE <<>>)
    \o (IF f.no_select THEN <<>>
        ELSE IF unselect THEN <<Cmd("UNSELECT", m)>>
        ELSE <<Cmd("SELECT", m), Cmd("EXAMINE", m)>>)
    \o <<Cmd("DELETE", m)>>

DeleteFolder(t, m) ==
    /\ Idle(t) /\ nops < MaxOps
    /\ m \in DOMAIN folders
    /\ IF ~DeleteAllowed(folders[m])
       THEN /\ FolderOpDone(t, "delete_folder", m, <<>>, "err")
            /\ UNCHANGED <<folders, server>>
       ELSE \E unselect \in BOOLEAN :
              ConverseAndRelist(t, "delete_folder", m,
                                DeletePlan(m, folders[m], unselect))
    /\ UNCHANGED <<threadVars, listVars, parseVars, iterVars, lockVars, sortVars, opVars>>
    /\ UNCHANGED <<uidvalidity, hash_index, uid_index, conn_lock,
                   conn_poisoned, pending, chan>>

SetFolderSubscription(t, m, new_val) ==
    /\ Idle(t) /\ nops < MaxOps
    /\ m \in DOMAIN folders
    /\ IF folders[m].is_subscribed = new_val
       THEN /\ FolderOpDone(t, "set_folder_subscription", m, <<>>, "ok")
            /\ UNCHANGED <<folders, server>>
       ELSE \E c \in Conversations(server,
                  <<Cmd(IF new_val THEN "SUBSCRIBE" ELSE "UNSUBSCRIBE", m)>>) :
              /\ server' = Serve(server, c.sent, c.replies)
              /\ IF c.sent = <<>> \/ LastReply(c) = "NO"
                 THEN /\ folders' = folders
                      /\ FolderOpDone(t, "set_folder_subscription", m,
                                      c.sent, "err")
                 ELSE /\ folders' = [folders EXCEPT
                                       ![m].is_subscribed = new_val]
                      /\ FolderOpDone(t, "set_folder_subscription", m,
                                      c.sent, "ok")
    /\ UNCHANGED <<threadVars, listVars, parseVars, iterVars, lockVars, sortVars, opVars>>
    /\ UNCHANGED <<uidvalidity, hash_index, uid_index, conn_lock,
                   conn_poisoned, pending, chan>>

RenameFolder(t, m, new_path) ==
    /\ Idle(t) /\ nops < MaxOps
    /\ m \in DOMAIN folders
    /\ IF ~RenameAllowed(folders[m])
       THEN /\ FolderOpDone(t, "rename_folder", m, <<>>, "err")
            /\ UNCHANGED <<folders, server>>
       ELSE ConverseAndRelist(t, "rename_folder", m,
                              <<Cmd("RENAME", <<m, new_path>>)>>)
    /\ UNCHANGED <<threadVars, listVars, parseVars, iterVars, lockVars, sortVars, opVars>>
    /\ UNCHANGED <<uidvalidity, hash_index, uid_index, conn_lock,
                   conn_poisoned, pending, chan>>

(* The permission test, then Err("Unimplemented."). *)
SetFolderPermissions(t, m) ==
    /\ Idle(t) /\ nops < MaxOps
    /\ m \in DOMAIN folders
    /\ IF ~ChangeAllowed(folders[m])
       THEN FolderOpDone(t, "set_folder_permissions", m, <<>>, "err")
       ELSE FolderOpDone(t, "set_folder_permissions", m, <<>>, "err")
    /\ UNCHANGED <<folders, server>>
    /\ UNCHANGED <<threadVars, listVars, parseVars, iterVars, lockVars, sortVars, opVars>>
    /\ UNCHANGED <<uidvalidity, hash_index, uid_index, conn_lock,
                   conn_poisoned, pending, chan>>

(* The account after its first folders(): the cache lists the server. *)
InitFolder ==
    /\ ThreadIdle
    /\ ImapIdle
    /\ ListIdle
    /\ ParseIdle
    /\ IterIdle
    /\ LockIdle
    /\ SortIdle
    /\ \E mailboxes \in SUBSET Mailboxes, r1 \in Rights, r2 \in Rights :
         \E subscribed \in SUBSET mailboxes :
            /\ "INBOX" \in mailboxes
            /\ server = [mailboxes |-> mailboxes, subscribed |-> subscribed,
                         rights |-> [m \in Mailboxes |->
                                       IF m = "INBOX" THEN r1 ELSE r2]]
    /\ folders = Listed(server)
    /\ pre = [t |-> "none", folders |-> folders, agreed |-> TRUE,
              listed |-> FALSE, ret |-> {}]

NextFolder ==
    \E t \in Callers, m \in Mailboxes :
        \/ CreateFolder(t, m)
        \/ DeleteFolder(t, m)
        \/ \E new_val \in BOOLEAN : SetFolderSubscription(t, m, new_val)
        \/ \E new_path \in Mailboxes : RenameFolder(t, m, new_path)
        \/ SetFolderPermissions(t, m)

SpecFolder == InitFolder /\ [][NextFolder]_vars

-----------------------------------------------------------------------------
(***************************************************************************)
(* ImapType::folders on its own: the first call lists the server, later    *)
(* calls answer from the cached map.                                       *)
(***************************************************************************)

(* The mailboxes the listing path returns: the entries whose is_subscribed
   flag LSUB has set. *)
ListingReturn(map) == {path \in DOMAIN map : map[path].is_subscribed}

(* The mailboxes the cached path returns: every entry. *)
CachedReturn(map) == DOMAIN map

(* uid_lock.entry(f.hash()).or_default() for every listed mailbox. *)
InitValidity(validity, map) ==
    [path \in (DOMAIN validity) \cup (DOMAIN map) |->
        IF path \in DOMAIN validity THEN validity[path] ELSE "unset"]

FoldersReturn(t, cmds, res, ret) ==
    /\ th' = [th EXCEPT ![t] = [NoOp EXCEPT !.op = "folders", !.pc = "done",
                                  !.cmds = cmds, !.res = res, !.ret = ret]]
    /\ pre' = [t |-> t, folders |-> folders,
               agreed |-> (folders = Listed(server)),
               listed |-> (pre.t # "none" /\ th[pre.t].op = "folders"
                              /\ th[pre.t].res = "ok"),
               ret |-> IF pre.t = "none" THEN {} ELSE th[pre.t].ret]
    /\ nops' = nops + 1

Folders(t) ==
    /\ Idle(t) /\ nops < MaxOps
    /\ IF DOMAIN folders # {}
       THEN /\ FoldersReturn(t, <<>>, "ok", CachedReturn(folders))
            /\ UNCHANGED <<folders, uidvalidity>>
       ELSE \/ \E sent \in {<<>>, <<Cmd("LIST", "*")>>} :
                 /\ FoldersReturn(t, sent, "err", {})
                 /\ UNCHANGED <<folders, uidvalidity>>
            \/ /\ folders' = Listed(server)
               /\ uidvalidity' = InitValidity(uidvalidity, folders')
               /\ FoldersReturn(t, <<Cmd("LIST", "*"), Cmd("LSUB", "*")>>,
                                "ok", ListingReturn(folders'))
    /\ UNCHANGED <<threadVars, listVars, parseVars, iterVars, lockVars, sortVars, opVars, server>>
    /\ UNCHANGED <<hash_index, uid_index, conn_lock, conn_poisoned,
                   pending, chan>>

(* ImapType::new: nothing is cached; the server has its mailboxes. *)
InitList ==
    /\ ThreadIdle
    /\ ImapIdle
    /\ ListIdle
    /\ ParseIdle
    /\ IterIdle
    /\ LockIdle
    /\ SortIdle
    /\ folders = << >>
    /\ \E mailboxes \in SUBSET Mailboxes, r1 \in Rights, r2 \in Rights :
         \E subscribed \in SUBSET mailboxes :
            /\ "INBOX" \in mailboxes
            /\ server = [mailboxes |-> mailboxes, subscribed |-> subscribed,
                         rights |-> [m \in Mailboxes |->
                                       IF m = "INBOX" THEN r1 ELSE r2]]
    /\ pre = [t |-> "none", folders |-> folders, agreed |-> FALSE,
              listed |-> FALSE, ret |-> {}]

NextList == \E t \in Callers : Folders(t)

SpecList == InitList /\ [][NextList]_vars

-----------------------------------------------------------------------------
(***************************************************************************)
(* imap_folders: the loop over the lines of the LIST response.  A mailbox  *)
(* path is the sequence of its components, so that the parent of a path is *)
(* the path cut at its last separator; a hash is the path it is the hash   *)
(* of.                                                                     *)
(***************************************************************************)

(* The mailboxes a server may list: two top-level ones, a child and a
   grandchild. *)
ListPaths ==
    {<<"INBOX">>, <<"Lists">>, <<"Lists", "dev">>, <<"Lists", "dev", "rust">>}

(* Option::None for ImapFolder.parent, and the hash of the default folder. *)
NoPath == <<>>

(* ImapFolder::default(), with the given children. *)
DummyFolder(children) ==
    [hash |-> NoPath, path |-> NoPath, parent |-> NoPath,
     no_select |-> FALSE, children |-> children]

(* One parsed LIST line: the parent is the path before the last separator,
   None for a path without separator; children starts empty. *)
list_folder_result(path, no_select) ==
    [hash |-> path, path |-> path,
     parent |-> IF Len(path) > 1 THEN SubSeq(path, 1, Len(path) - 1)
                ELSE NoPath,
     no_select |-> no_select, children |-> <<>>]

(* An existing entry replaced by the folder as parsed, children included. *)
Overwrite(entry, folder) == folder

(* The entry that replaces an existing one: the children are swapped out of
   the old entry into the new folder, which then overwrites the entry. *)
SwapChildren(entry, folder) == [folder EXCEPT !.children = entry.children]

(* The first half of the loop body: the folder is attached to its parent's
   entry, a dummy parent being inserted when the parent has none yet. *)
AttachToParent(map, folder) ==
    IF folder.parent = NoPath THEN map
    ELSE IF folder.parent \in DOMAIN map
         THEN [map EXCEPT ![folder.parent].children = Append(@, folder.hash)]
         ELSE Put(map, folder.parent, DummyFolder(<<folder.hash>>))

(* The second half: the folder takes its own slot. *)
InsertFolder(map, folder) ==
    IF folder.hash \in DOMAIN map
    THEN [map EXCEPT ![folder.hash] = SwapChildren(@, folder)]
    ELSE Put(map, folder.hash, folder)

(* One iteration of the loop. *)
ListLine ==
    /\ list_pos < Len(list_lines)
    /\ LET folder == list_lines[list_pos + 1]
       IN list_folders' = InsertFolder(AttachToParent(list_folders, folder),
                                       folder)
    /\ list_pos' = list_pos + 1
    /\ UNCHANGED <<threadVars, imapVars, opVars, folderVars, sortVars,
                   parseVars, iterVars, lockVars, list_lines>>

(* The orders in which the members of a set can be listed. *)
Orders(S) ==
    {o \in [1..Cardinality(S) -> S] : \A i, j \in DOMAIN o : o[i] = o[j] => i = j}

(* The server lists any of its mailboxes in any order, each with or without
   \Noselect; the local map starts empty. *)
InitLines ==
    /\ ThreadIdle
    /\ ImapIdle
    /\ FolderIdle
    /\ folders = << >>
    /\ tag_index = {}
    /\ \E S \in SUBSET ListPaths :
       \E o \in Orders(S), ns \in [S -> BOOLEAN] :
         list_lines = [i \in DOMAIN o |-> list_folder_result(o[i], ns[o[i]])]
    /\ list_pos = 0
    /\ list_folders = << >>
    /\ ParseIdle
    /\ IterIdle
    /\ LockIdle
    /\ SortIdle

NextLines == ListLine

SpecLines == InitLines /\ [][NextLines]_vars

-----------------------------------------------------------------------------
(***************************************************************************)
(* Threads::sort_by over the presentation tree.  A node of the tree is its *)
(* container's index with its child nodes; a subject is the rank of its   *)
(* text in the order of strings.                                           *)
(***************************************************************************)
SortFields == {"Subject", "Date"}

SortOrders == {"Asc", "Desc"}

SortKeys == SortFields \X SortOrders

Subjects == {1, 2}

SortDates == {1, 2}

(* ContainerTree::new(id): a node without children. *)
Leaf(id) == [id |-> id, children |-> <<>>, len |-> 1, has_unseen |-> FALSE]

(* c.len summed over the ContainerTrees of a children list. *)
RECURSIVE LenSum(_)
LenSum(nodes) ==
    IF nodes = <<>> THEN 0 ELSE Head(nodes).len + LenSum(Tail(nodes))

(* A ContainerTree that was given the children list, as build_threaded
   leaves it. *)
Node(id, children) ==
    [id |-> id, children |-> children, len |-> LenSum(children),
     has_unseen |-> \E k \in DOMAIN children : children[k].has_unseen]

(* The trees before they are sorted: three threads of one message, one
   thread of three, a thread of two next to a single message, and a thread
   of four in which a reply has two replies of its own. *)
TreeShapes ==
    {<<Leaf(1), Leaf(2), Leaf(3)>>,
     <<Node(1, <<Leaf(2), Leaf(3)>>)>>,
     <<Node(1, <<Leaf(2)>>), Leaf(3)>>,
     <<Node(1, <<Node(2, <<Leaf(3), Leaf(4)>>)>>)>>}

(* Ord::cmp *)
Cmp(a, b) == IF a < b THEN "Less" ELSE IF a > b THEN "Greater" ELSE "Equal"

(* The closure that inner_sort_by and inner_subsort_by hand to sort_by:
   containers a and b compared under a key. *)
Compare(threads, envelopes, key, a, b) ==
    CASE key = <<"Date", "Desc">> -> Cmp(threads[b].date, threads[a].date)
      [] key = <<"Date", "Asc">> -> Cmp(threads[a].date, threads[b].date)
      [] key = <<"Subject", "Desc">> ->
            IF threads[a].message = NONE \/ threads[b].message = NONE
            THEN "Equal"
            ELSE Cmp(envelopes[threads[a].message].subject,
                     envelopes[threads[b].message].subject)
      [] key = <<"Subject", "Asc">> ->
            IF threads[a].message = NONE \/ threads[b].message = NONE
            THEN "Equal"
            ELSE Cmp(envelopes[threads[b].message].subject,
                     envelopes[threads[a].message].subject)

Arrangements(ids) ==
    {p \in [DOMAIN ids -> {ids[i] : i \in DOMAIN ids}] :
        \A i, j \in DOMAIN p : p[i] = p[j] => i = j}

Position(ids, x) == CHOOSE i \in DOMAIN ids : ids[i] = x

(* The comparison is a total preorder of the ids: "not greater" is
   transitive. *)
TotalOrder(threads, envelopes, key, ids) ==
    \A i, j, k \in DOMAIN ids :
        (/\ Compare(threads, envelopes, key, ids[i], ids[j]) # "Greater"
         /\ Compare(threads, envelopes, key, ids[j], ids[k]) # "Greater")
            => Compare(threads, envelopes, key, ids[i], ids[k]) # "Greater"

(* slice::sort_by: a stable sort.  Under a total preorder its result is the
   one ordered arrangement that keeps equal elements in their order; under
   a comparison that is none, the order of the result is unspecified. *)
SortResults(threads, envelopes, key, ids) ==
    IF TotalOrder(threads, envelopes, key, ids)
    THEN {p \in Arrangements(ids) :
            \A i, j \in DOMAIN p :
                i < j =>
                  LET c == Compare(threads, envelopes, key, p[i], p[j])
                  IN /\ c # "Greater"
                     /\ c = "Equal" => Position(ids, p[i]) < Position(ids, p[j])}
    ELSE Arrangements(ids)

RootIds(t) == [i \in DOMAIN t |-> t[i].id]

(* inner_sort_by: the trees that sorting the roots may leave. *)
inner_sort_by(t, threads, envelopes, key) ==
    {[i \in DOMAIN t |-> t[Position(RootIds(t), p[i])]] :
        p \in SortResults(threads, envelopes, key, RootIds(t))}

(* inner_subsort_by: the trees that sorting every root's children may
   leave. *)
inner_subsort_by(t, threads, envelopes, key) ==
    {[i \in DOMAIN t |-> [t[i] EXCEPT !.children = c[i]]] :
        c \in {f \in [DOMAIN t ->
                        UNION {inner_sort_by(t[i].children, threads,
                                             envelopes, key) :
                                 i \in DOMAIN t}] :
                 \A i \in DOMAIN t :
                     f[i] \in inner_sort_by(t[i].children, threads,
                                            envelopes, key)}}

(* The test without the comparison: every key is taken for a new one. *)
AlwaysStale(cached, requested) == TRUE

(* The test of sort_by: the requested key differs from the cached one. *)
Stale(cached, requested) == cached # requested

(* Threads::sort_by(sort, subsort, collection) *)
SortBy(s, ss) ==
    /\ tree # <<>>
    /\ sort_calls < MaxSortCalls
    /\ \E t1 \in (IF Stale(sort, s)
                  THEN inner_sort_by(tree, containers, collection, s)
                  ELSE {tree}) :
         tree' \in (IF Stale(subsort, ss)
                    THEN inner_subsort_by(t1, containers, collection, ss)
                    ELSE {t1})
    /\ sort' = s
    /\ subsort' = ss
    /\ resorted' = (Stale(sort, s) \/ Stale(subsort, ss))
    /\ sort_calls' = sort_calls + 1
    /\ UNCHANGED <<threadVars, imapVars, opVars, folderVars, listVars, parseVars, iterVars, lockVars,
                   threaded_collection>>

(* The <<parent, child>> pairs of the nodes of a tree whose roots hang
   below `parent`. *)
RECURSIVE Edges(_, _)
Edges(nodes, parent) ==
    UNION {{<<parent, nodes[k].id>>} \cup Edges(nodes[k].children, nodes[k].id) :
             k \in DOMAIN nodes}

(* The parent of container i in a tree shape, NONE for a root. *)
ShapeParent(shape, i) ==
    (CHOOSE e \in Edges(shape, NONE) : e[2] = i)[1]

(* The containers of a tree shape. *)
ShapeIds(shape) == {e[2] : e \in Edges(shape, NONE)}

(* Threads as build_threads leaves it: three containers, at most one of
   them without a message; the tree is built and sorted by the default
   keys. *)
InitSort ==
    /\ ImapIdle
    /\ FolderIdle
    /\ ListIdle
    /\ ParseIdle
    /\ IterIdle
    /\ LockIdle
    /\ folders = << >>
    /\ tag_index = {}
    /\ id_table = [m \in MsgIds |-> NONE]
    /\ root_set = {}
    /\ tpc = "done"
    /\ refused = FALSE
    /\ \E shape \in TreeShapes :
       \E dates \in [ShapeIds(shape) -> SortDates],
          subjects \in [ShapeIds(shape) -> Subjects],
          placeholders \in {{}, {1}, {2}, {3}} :
         /\ collection = [i \in 1..Cardinality(ShapeIds(shape)) |->
                            [mid |-> i, refs |-> <<>>, date |-> dates[i],
                             subject |-> subjects[i]]]
         /\ containers = [i \in 1..Cardinality(ShapeIds(shape)) |->
                            NewContainer(i,
                                IF i \in placeholders THEN NONE ELSE i,
                                ShapeParent(shape, i), NONE, dates[i])]
         /\ \E t1 \in inner_sort_by(shape, containers, collection,
                                    <<"Date", "Desc">>) :
              tree \in inner_subsort_by(t1, containers, collection,
                                        <<"Date", "Desc">>)
    /\ sort = <<"Date", "Desc">>
    /\ subsort = <<"Date", "Desc">>
    /\ sort_calls = 0
    /\ resorted = FALSE
    /\ threaded_collection = <<>>

NextSort == \E s \in SortKeys, ss \in SortKeys : SortBy(s, ss)

SpecSort == InitSort /\ [][NextSort]_vars

-----------------------------------------------------------------------------
(***************************************************************************)
(* Threads::build_collection: the presentation tree built from the arena   *)
(* that build_threads leaves.  A subject is a sequence of tokens, "Re: "   *)
(* being one token and a topic another.                                    *)
(***************************************************************************)
Topics == {"a", "b"}

RECURSIVE RePrefix(_)
RePrefix(k) == IF k = 0 THEN <<>> ELSE <<"Re: ">> \o RePrefix(k - 1)

TreeSubjects == {RePrefix(k) \o <<t>> : k \in 0..MaxRe, t \in Topics}

(* str::starts_with *)
starts_with(s, prefix) ==
    Len(prefix) <= Len(s) /\ SubSeq(s, 1, Len(prefix)) = prefix

(* str::ends_with *)
ends_with(s, suffix) ==
    Len(suffix) <= Len(s)
      /\ SubSeq(s, Len(s) - Len(suffix) + 1, Len(s)) = suffix

(* The test of build_threaded on a message's subject and the subject it is
   compared with. *)
SameSubject(subject, root_subject) ==
    subject = root_subject
      \/ (starts_with(subject, <<"Re: ">>) /\ ends_with(subject, root_subject))

(* build_threaded(tree, containers, indentation, threaded, i,
   root_subject_idx, collection), and its loop over the sibling chain that
   starts at fc.  The result is the arena, threaded_collection and the
   ContainerTree of i (the ContainerTrees of the chain). *)
RECURSIVE build_threaded(_, _, _, _, _, _, _)
RECURSIVE BuildChildren(_, _, _, _, _, _, _)
build_threaded(threads, threaded, envelopes, indentation, i, root_subject_idx, fuel) ==
    LET thread == threads[i]
        compared == /\ threads[root_subject_idx].message # NONE
                    /\ indentation > 0
                    /\ thread.message # NONE
        unseen == compared /\ ~envelopes[thread.message].seen
        hidden == compared
                    /\ SameSubject(
                         envelopes[thread.message].subject,
                         envelopes[threads[root_subject_idx].message].subject)
        t1 == IF hidden THEN [threads EXCEPT ![i].show_subject = FALSE]
              ELSE threads
        t2 == IF thread.parent # NONE /\ t1[thread.parent].message = NONE
              THEN [t1 EXCEPT ![i].parent = NONE]
              ELSE t1
        t3 == IF thread.message # NONE
              THEN [t2 EXCEPT ![i].indentation = indentation]
              ELSE t2
        pushed == IF thread.message # NONE
                     /\ ~(\E k \in DOMAIN threaded : threaded[k] = i)
                  THEN Append(threaded, i)
                  ELSE threaded
        below == IF thread.message # NONE THEN indentation + 1
                 ELSE IF indentation > 0 THEN indentation
                 ELSE indentation + 1
    IN IF thread.first_child = NONE \/ fuel = 0
       THEN [threads |-> t3, threaded |-> pushed,
             node |-> [Leaf(i) EXCEPT !.has_unseen = unseen]]
       ELSE LET r == BuildChildren(t3, pushed, envelopes, below,
                                   thread.first_child, i, fuel - 1)
            IN [threads |-> r.threads, threaded |-> r.threaded,
                node |-> [Node(i, r.nodes) EXCEPT
                            !.has_unseen = unseen \/ @]]

BuildChildren(threads, threaded, envelopes, indentation, fc, parent, fuel) ==
    LET r == build_threaded(threads, threaded, envelopes, indentation, fc,
                            parent, fuel)
        sibling == r.threads[fc].next_sibling
    IN IF sibling = NONE \/ fuel = 0
       THEN [threads |-> r.threads, threaded |-> r.threaded,
             nodes |-> <<r.node>>]
       ELSE LET rest == BuildChildren(r.threads, r.threaded, envelopes,
                                      indentation, sibling, parent, fuel - 1)
            IN [threads |-> rest.threads, threaded |-> rest.threaded,
                nodes |-> <<r.node>> \o rest.nodes]

(* The loop of Threads::build_collection over root_set. *)
RECURSIVE BuildRoots(_, _, _, _)
BuildRoots(threads, threaded, envelopes, roots) ==
    IF roots = <<>>
    THEN [threads |-> threads, threaded |-> threaded, nodes |-> <<>>]
    ELSE LET r == build_threaded(threads, threaded, envelopes, 0,
                                 Head(roots), Head(roots), 2 * Len(threads))
             rest == BuildRoots(r.threads, r.threaded, envelopes, Tail(roots))
         IN [threads |-> rest.threads, threaded |-> rest.threaded,
             nodes |-> <<r.node>> \o rest.nodes]

(* root_set as build_threads leaves the vector: the parentless containers
   in the order of id_table.values(), which is the hash map's, stably
   sorted by date, latest first. *)
RootOrders(threads, roots) ==
    {p \in [1..Cardinality(roots) -> roots] :
        /\ \A i, j \in DOMAIN p : p[i] = p[j] => i = j
        /\ \A i, j \in DOMAIN p :
              i < j => threads[p[i]].date >= threads[p[j]].date}

(* Threads::build_collection(collection), called at the end of
   build_threads. *)
BuildCollection ==
    /\ tpc = "done"
    /\ tree = <<>>
    /\ \E roots \in RootOrders(containers, root_set) :
         LET r == BuildRoots(containers, threaded_collection, collection,
                             roots)
         IN /\ containers' = r.threads
            /\ threaded_collection' = r.threaded
            /\ \E t1 \in inner_sort_by(r.nodes, r.threads, collection, sort) :
                 tree' \in inner_subsort_by(t1, r.threads, collection,
                                            subsort)
    /\ tpc' = "tree"
    /\ UNCHANGED <<id_table, collection, root_set, refused, sort, subsort,
                   sort_calls, resorted, imapVars, opVars, folderVars,
                   listVars, parseVars, iterVars, lockVars>>

(* build_collection run over the envelopes from the i-th on. *)
RECURSIVE BuildArena(_, _, _, _)
BuildArena(threads, idt, envelopes, i) ==
    IF i > Len(envelopes) THEN [threads |-> threads, id_table |-> idt]
    ELSE LET r == build_collection_step(threads, idt, i, envelopes[i])
         IN BuildArena(r.threads, r.id_table, envelopes, i + 1)

(* The References of the envelope with Message-ID i: none, or one other
   Message-ID. *)
TreeRefs(i) == {<<>>} \cup {<<r>> : r \in MsgIds \ {i}}

(* The Message-IDs of a collection of n envelopes: all different, or the
   last envelope carries the Message-ID of the first. *)
TreeMids(n) ==
    {[i \in 1..n |-> i]}
        \cup {[i \in 1..n |-> IF i = n THEN 1 ELSE i] : k \in {n} \ {1}}

(* build_threads has threaded a collection of up to MaxTreeMsgs envelopes,
   all of one date, and derived the root set. *)
InitTree ==
    /\ ImapIdle
    /\ FolderIdle
    /\ ListIdle
    /\ ParseIdle
    /\ IterIdle
    /\ LockIdle
    /\ SortIdle
    /\ folders = << >>
    /\ tag_index = {}
    /\ refused = FALSE
    /\ tpc = "done"
    /\ \E n \in 1..MaxTreeMsgs :
       \E subjects \in [1..n -> TreeSubjects], seen \in [1..n -> BOOLEAN] :
       \E mids \in TreeMids(n) :
       \E refs \in {f \in [1..n -> UNION {TreeRefs(i) : i \in 1..n}] :
                      \A i \in 1..n : f[i] \in TreeRefs(mids[i])} :
         /\ collection = [i \in 1..n |->
                            [mid |-> mids[i], refs |-> refs[i], date |-> 1,
                             subject |-> subjects[i], seen |-> seen[i]]]
         /\ LET r == BuildArena(<<>>, [m \in MsgIds |-> NONE], collection, 1)
            IN /\ containers = r.threads
               /\ id_table = r.id_table
               /\ root_set = RootSet(r.threads, r.id_table)

(* Threads::root_set_iter: a RootIterator at position 0 over the tree. *)
RootSetIter ==
    /\ tpc = "tree"
    /\ iter.kind = "none"
    /\ iter' = [NoIter EXCEPT !.kind = "root"]
    /\ UNCHANGED <<threadVars, imapVars, opVars, folderVars, listVars,
                   parseVars, sortVars, lockVars>>

(* RootIterator::next: None at the end of the tree, otherwise the id, len
   and has_unseen of the root at pos. *)
root_next(nodes, pos) ==
    IF pos = Len(nodes) THEN [some |-> FALSE, pos |-> pos]
    ELSE [some |-> TRUE, pos |-> pos + 1,
          item |-> [id |-> nodes[pos + 1].id, len |-> nodes[pos + 1].len,
                    has_unseen |-> nodes[pos + 1].has_unseen]]

RootNext ==
    /\ iter.kind = "root"
    /\ ~iter.done
    /\ LET r == root_next(tree, iter.pos)
       IN iter' = IF r.some
                  THEN [iter EXCEPT !.pos = r.pos, !.out = Append(@, r.item)]
                  ELSE [iter EXCEPT !.done = TRUE]
    /\ UNCHANGED <<threadVars, imapVars, opVars, folderVars, listVars,
                   parseVars, sortVars, lockVars>>

NextTree == BuildCollection \/ RootSetIter \/ RootNext

SpecTree == InitTree /\ [][NextTree]_vars

-----------------------------------------------------------------------------
(***************************************************************************)
(* uid_fetch_response and uid_fetch_responses                              *)
(* (imap_async/protocol_parser.rs).  An input is a sequence of bytes; each *)
(* of the literals the parser matches ("* ", "FETCH (", "UID ",            *)
(* "RFC822 ", CRLF) stands in it as one byte, and LeadByte followed by     *)
(* ContByte is one character of two bytes.  Positions count bytes from 0,  *)
(* as the parser's `i`.  The inputs hold UID and RFC822 items only.        *)
(***************************************************************************)
CRLF == "\r\n"

LeadByte == "C3"

ContByte == "A9"

DigitBytes == <<"0", "1", "2", "3", "4", "5", "6", "7", "8", "9">>

(* nom's is_digit, u8::is_ascii_digit: the bytes they accept *)
is_digit == {DigitBytes[k] : k \in DOMAIN DigitBytes}

DigitValue(b) == (CHOOSE k \in DOMAIN DigitBytes : DigitBytes[k] = b) - 1

(* char::is_whitespace of a byte taken as a char: the bytes it accepts *)
is_whitespace == {" ", CRLF}

(* The byte index i lies on a character boundary of the str. *)
is_char_boundary(input, i) ==
    i = Len(input) \/ (i < Len(input) /\ input[i + 1] # ContByte)

(* input[i..].starts_with(tag), for i on a character boundary *)
StartsAt(input, i, tag) ==
    /\ i + Len(tag) <= Len(input)
    /\ SubSeq(input, i + 1, i + Len(tag)) = tag

(* The index after the bytes from i on that the test accepts. *)
RECURSIVE take_while(_, _, _)
take_while(accepted, input, i) ==
    IF i < Len(input) /\ input[i + 1] \in accepted
    THEN take_while(accepted, input, i + 1)
    ELSE i

(* The decimal number written by the bytes i .. j-1, in a usize. *)
RECURSIVE FromDigits(_, _, _)
FromDigits(input, i, j) ==
    IF j <= i THEN 0
    ELSE (FromDigits(input, i, j - 1) * 10 + DigitValue(input[j])) % (UsizeMax + 1)

ParseErr == [kind |-> "Err"]

ParsePanic == [kind |-> "Panic"]

NoBody == <<"none">>

(* UidFetchResponse { uid: 0, message_sequence_number: 0, body: None } *)
NewResponse == [uid |-> 0, message_sequence_number |-> 0, body |-> NoBody]

(* Ok((&input[i..], ret, None)); the slice panics off a character
   boundary. *)
ParseOk(input, i, ret) ==
    IF is_char_boundary(input, i)
    THEN [kind |-> "Ok", rest |-> SubSeq(input, i + 1, Len(input)),
          val |-> ret]
    ELSE ParsePanic

(* length_data(delimited(tag("{"), map_res(digit1, usize::from_str),
   tag("}\r\n"))) on the bytes from i on: the count, then that many bytes,
   or an error when fewer follow. *)
length_data(input, i) ==
    LET d == take_while(is_digit, input, i + 1)
        n == FromDigits(input, i + 1, d)
    IN IF /\ StartsAt(input, i, <<"{">>)
          /\ d > i + 1
          /\ StartsAt(input, d, <<"}", CRLF>>)
          /\ d + 2 + n <= Len(input)
       THEN [ok |-> TRUE, body |-> SubSeq(input, d + 3, d + 2 + n),
             next |-> d + 2 + n]
       ELSE [ok |-> FALSE, body |-> <<>>, next |-> i]

(* The loop `while i < input.len()` over the items of the response. *)
RECURSIVE FetchItems(_, _, _)
FetchItems(input, i, ret) ==
    IF i >= Len(input) THEN ParseOk(input, i, ret)
    ELSE LET j == take_while(is_whitespace, input, i)   \* eat_whitespace!(break)
         IN IF ~is_char_boundary(input, j) THEN ParsePanic   \* input[i..]
            ELSE IF StartsAt(input, j, <<"UID ">>)
            THEN LET d == take_while(is_digit, input, j + 1)
                 IN IF d = j + 1
                    THEN ParsePanic     \* usize::from_str("").unwrap()
                    ELSE FetchItems(input, d,
                           [ret EXCEPT !.uid = FromDigits(input, j + 1, d)])
            ELSE IF StartsAt(input, j, <<"RFC822 ", "{">>)
            THEN LET r == length_data(input, j + 1)
                 IN IF r.ok
                    THEN FetchItems(input, r.next,
                                    [ret EXCEPT !.body = r.body])
                    ELSE ParseErr
            ELSE IF StartsAt(input, j, <<")", CRLF>>)
            THEN ParseOk(input, j + 2, ret)
            ELSE ParseErr

(* uid_fetch_response(input) *)
uid_fetch_response(input) ==
    IF ~StartsAt(input, 0, <<"* ">>) THEN ParseErr  \* should_start_with!
    ELSE IF Len(input) = 1 THEN ParsePanic       \* input.as_bytes()[i]
    ELSE LET d == take_while(is_digit, input, 1)
             w == take_while(is_whitespace, input, d)
         IN IF d > 1 /\ d = Len(input) THEN ParseErr       \* bounds!()
            ELSE IF w > d /\ w = Len(input) THEN ParseErr  \* bounds!()
            ELSE IF ~is_char_boundary(input, w) THEN ParsePanic
            ELSE IF ~StartsAt(input, w, <<"FETCH (">>) THEN ParseErr
            ELSE FetchItems(input, w + 1,
                   [NewResponse EXCEPT
                      !.message_sequence_number = FromDigits(input, 1, d)])

(* uid_fetch_responses(input): the responses parsed so far are `ret`. *)
RECURSIVE FetchLoop(_, _)
FetchLoop(input, ret) ==
    LET next_response == uid_fetch_response(input)
    IN IF next_response.kind # "Ok" THEN next_response
       ELSE IF StartsAt(next_response.rest, 0, <<"* ">>)
       THEN FetchLoop(next_response.rest, Append(ret, next_response.val))
       ELSE [kind |-> "Ok", rest |-> next_response.rest,
             val |-> Append(ret, next_response.val)]

uid_fetch_responses(input) == FetchLoop(input, <<>>)

(* The inputs: FETCH responses with up to MaxItems items, at most one of
   them an RFC822 literal whose count and body are chosen apart, alone or
   followed by a second response, and every str that is the beginning of
   one of these. *)
FetchHeader == <<"* ", "1", " ", "FETCH (">>

BodyChars == {<<")">>, <<CRLF>>, <<"x">>, <<LeadByte, ContByte>>}

RECURSIVE BodiesOfLen(_)
BodiesOfLen(n) ==
    IF n = 0 THEN {<<>>}
    ELSE UNION {{c \o b : b \in BodiesOfLen(n - Len(c))} :
                  c \in {x \in BodyChars : Len(x) <= n}}

Bodies == UNION {BodiesOfLen(n) : n \in 0..MaxBody}

Literal(n, body) ==
    <<"RFC822 ", "{", DigitBytes[n + 1], "}", CRLF>> \o body

Literals == {Literal(n, b) : n \in 0..(MaxBody + 1), b \in Bodies}

UidItems == {<<"UID ", "1">>, <<"UID ", "x">>, <<"UID ", "1", "2">>}

RECURSIVE ItemLists(_)
ItemLists(n) ==
    IF n = 0 THEN {<<>>}
    ELSE {<<>>} \cup {<<i>> \o l : i \in UidItems \cup Literals,
                                    l \in ItemLists(n - 1)}

OneLiteral(items) ==
    Cardinality({k \in DOMAIN items : items[k] \in Literals}) <= 1

RECURSIVE Join(_)
Join(items) ==
    IF items = <<>> THEN <<>>
    ELSE IF Len(items) = 1 THEN items[1]
    ELSE items[1] \o <<" ">> \o Join(Tail(items))

FetchResponses ==
    {FetchHeader \o Join(l) \o <<")", CRLF>> :
        l \in {x \in ItemLists(MaxItems) : OneLiteral(x)}}

SecondResponse == <<"* ", "2", " ", "FETCH (", "UID ", "2", ")", CRLF>>

FetchInputs ==
    LET whole == FetchResponses \cup {r \o SecondResponse : r \in FetchResponses}
    IN {s \in UNION {{SubSeq(w, 1, k) : k \in 0..Len(w)} : w \in whole} :
          s = <<>> \/ s[Len(s)] # LeadByte}

Parse(fn, result) ==
    /\ parse.fn = "none"
    /\ parse' = [parse EXCEPT !.fn = fn, !.res = result]
    /\ UNCHANGED <<threadVars, imapVars, opVars, folderVars, listVars,
                   sortVars, iterVars, lockVars>>

(* A call of uid_fetch_response on the input. *)
UidFetchResponse ==
    Parse("uid_fetch_response", uid_fetch_response(parse.input))

(* A call of uid_fetch_responses on the input. *)
UidFetchResponses ==
    Parse("uid_fetch_responses", uid_fetch_responses(parse.input))

ParseInit(inputs) ==
    /\ ThreadIdle
    /\ ImapIdle
    /\ FolderIdle
    /\ ListIdle
    /\ SortIdle
    /\ IterIdle
    /\ LockIdle
    /\ folders = << >>
    /\ tag_index = {}
    /\ \E s \in inputs : parse = [NoParse EXCEPT !.input = s]

InitFetch == ParseInit(FetchInputs)

NextFetch == UidFetchResponse \/ UidFetchResponses

SpecFetch == InitFetch /\ [][NextFetch]_vars

-----------------------------------------------------------------------------
(***************************************************************************)
(* ImapResponse::from and its conversion to Result<()>                     *)
(* (imap_async/protocol_parser.rs).  A reply is a sequence of tokens: the  *)
(* tag, " ", a status keyword, "[", a response code's name, "]", a word of *)
(* the text, "(", the timings, " secs)." and CRLF each count as one.       *)
(***************************************************************************)
(* str::find / str::rfind of a token: the first (last) position, 0 when
   there is none. *)
find(val, b) ==
    IF \E k \in DOMAIN val : val[k] = b
    THEN CHOOSE k \in DOMAIN val :
            val[k] = b /\ \A l \in 1..(k - 1) : val[l] # b
    ELSE 0

rfind(val, b) ==
    IF \E k \in DOMAIN val : val[k] = b
    THEN CHOOSE k \in DOMAIN val :
            val[k] = b /\ \A l \in (k + 1)..Len(val) : val[l] # b
    ELSE 0

(* str::trim *)
RECURSIVE trim(_)
trim(val) ==
    IF val = <<>> THEN val
    ELSE IF val[1] \in is_whitespace THEN trim(Tail(val))
    ELSE IF val[Len(val)] \in is_whitespace
    THEN trim(SubSeq(val, 1, Len(val) - 1))
    ELSE val

(* val.split_rn().last().unwrap_or(val): the last line of the reply, its
   CRLF included; the rest after the last CRLF when the reply does not end
   with one. *)
LastLine(val) ==
    LET ends == {k \in 1..(Len(val) - 1) : val[k] = CRLF}
    IN IF ends = {} THEN val
       ELSE SubSeq(val, (CHOOSE k \in ends : \A l \in ends : l <= k) + 1,
                   Len(val))

Alert(msg) == [code |-> "Alert", msg |-> msg]

BareCode(name) == [code |-> name, msg |-> <<>>]

(* The names ResponseCode::from tells apart after "[", and the variant it
   makes of each. *)
KnownCodes ==
    [BADCHARSET |-> "Badcharset(None)", READONLY |-> "ReadOnly",
     READWRITE |-> "ReadWrite", TRYCREATE |-> "Trycreate",
     UIDNEXT |-> "Uidnext(0)", UIDVALIDITY |-> "Uidvalidity(0)",
     UNSEEN |-> "Unseen(0)"]

(* ResponseCode::from(val); "panic" when the "] " it unwraps is missing. *)
ResponseCodeFrom(val) ==
    IF ~StartsAt(val, 0, <<"[">>) THEN Alert(trim(val))
    ELSE IF Len(val) >= 2 /\ val[2] \in DOMAIN KnownCodes
    THEN BareCode(KnownCodes[val[2]])
    ELSE LET close == {k \in 1..(Len(val) - 1) :
                          val[k] = "]" /\ val[k + 1] = " "}
         IN IF close = {} THEN BareCode("panic")
            ELSE Alert(trim(SubSeq(
                         val, (CHOOSE k \in close : \A l \in close : k <= l) + 1,
                         Len(val))))

StatusWords ==
    [OK |-> "Ok", NO |-> "No", BAD |-> "Bad", PREAUTH |-> "Preauth",
     BYE |-> "Bye"]

(* ImapResponse::from(val): the variant and its ResponseCode, or a panic:
   no space in the last line, a timing suffix without "(", a status word
   with nothing after it, or an unknown status word. *)
ImapResponseFrom(reply) ==
    LET line == LastLine(reply)
        sp == find(line, " ")
        val == trim(SubSeq(line, sp + 1, Len(line)))
        cut == IF val # <<>> /\ val[Len(val)] = " secs)."
               THEN IF rfind(val, "(") = 0 THEN <<"panic">>
                    ELSE SubSeq(val, 1, rfind(val, "(") - 1)
               ELSE val
    IN IF sp = 0 \/ cut = <<"panic">> THEN ParsePanic
       ELSE IF cut = <<>> \/ cut[1] \notin DOMAIN StatusWords THEN ParsePanic
       ELSE IF Len(cut) < 2 THEN ParsePanic      \* &val["OK ".len()..]
       ELSE LET code == ResponseCodeFrom(SubSeq(cut, 3, Len(cut)))
            IN IF code.code = "panic" THEN ParsePanic
               ELSE [kind |-> "Ok",
                     val |-> [status |-> StatusWords[cut[1]], code |-> code]]

(* impl Into<Result<()>> for ImapResponse: Ok(()), or the error with the
   text of an Alert, with the Debug form of any other ResponseCode. *)
IntoResult(r) ==
    IF r.kind # "Ok" THEN r
    ELSE IF r.val.status \in {"Ok", "Preauth", "Bye"} THEN [kind |-> "Ok"]
    ELSE IF r.val.code.code = "Alert"
    THEN [kind |-> "Err", msg |-> r.val.code.msg]
    ELSE [kind |-> "Err", msg |-> <<r.val.code.code>>]

(* The replies: an optional earlier line, then the status line made of a
   status word, an optional response code, a text and an optional timing
   suffix. *)
StatusTexts == {<<"Invalid">>, <<"Invalid", " ", "name">>}

StatusCodes == {<<>>, <<"[", "CANNOT", "]", " ">>, <<"[", "ALERT", "]", " ">>,
                <<"[", "TRYCREATE", "]", " ">>}

TimingSuffixes == {<<>>, <<" ", "(", "0.1", " secs).">>}

EarlierLines ==
    {<<>>, <<"*", " ", "OK", " ", "done", CRLF>>,
     <<"*", " ", "NO", " ", "earlier", CRLF>>}

StatusLine(word, code, text, timing) ==
    <<"M12", " ", word, " ">> \o code \o text \o timing \o <<CRLF>>

StatusInputs ==
    {e \o StatusLine(w, c, t, s) :
        e \in EarlierLines, w \in DOMAIN StatusWords, c \in StatusCodes,
        t \in StatusTexts, s \in TimingSuffixes}

(* ImapResponse::from(reply).into() *)
ImapResponseInto ==
    Parse("ImapResponse", IntoResult(ImapResponseFrom(parse.input)))

InitStatus == ParseInit(StatusInputs)

NextStatus == ImapResponseInto

SpecStatus == InitStatus /\ [][NextStatus]_vars

-----------------------------------------------------------------------------
(***************************************************************************)
(* search_results and search_results_raw (protocol_parser.rs).  The input  *)
(* is a byte slice: SearchTag stands for the eight bytes "* SEARCH" that   *)
(* both alternatives' tags begin with, every other element is one byte.    *)
(***************************************************************************)
SearchTag == "* SEARCH"

CR == "\r"

LF == "\n"

(* nom's complete is_not: the end of the longest run from i of bytes that
   are not among the rejected ones (the parser fails when the run is
   empty, which the callers test). *)
RECURSIVE is_not(_, _, _)
is_not(rejected, input, i) ==
    IF i < Len(input) /\ input[i + 1] \notin rejected
    THEN is_not(rejected, input, i + 1)
    ELSE i

(* nom's complete take_until: the first position from i where the tag
   begins, -1 when it begins nowhere. *)
RECURSIVE take_until(_, _, _)
take_until(tag, input, i) ==
    IF StartsAt(input, i, tag) THEN i
    ELSE IF i >= Len(input) THEN -1
    ELSE take_until(tag, input, i + 1)

(* usize::from_str: an optional "+", then at least one digit and nothing
   else.  The texts handed to it here have at most MaxSearch digits, whose
   values lie below UsizeMax, so the overflow error does not arise. *)
from_str(s) ==
    LET d == IF s # <<>> /\ s[1] = "+" THEN Tail(s) ELSE s
    IN  IF d # <<>> /\ \A k \in DOMAIN d : d[k] \in is_digit
        THEN [ok |-> TRUE, val |-> FromDigits(d, 0, Len(d))]
        ELSE [ok |-> FALSE]

(* map_res(is_not(" \r\n"), usize::from_str) at i: the end of the element
   and its value, or a failure. *)
SearchElement(input, i) ==
    LET j == is_not({" ", CR, LF}, input, i)
        n == from_str(SubSeq(input, i + 1, j))
    IN  IF j > i /\ n.ok THEN [ok |-> TRUE, i |-> j, val |-> n.val]
        ELSE [ok |-> FALSE]

(* A list parser that stops after the first element. *)
SearchListOfOne(input, i, list) == [i |-> i, list |-> list]

(* The loop of separated_nonempty_list after the first element: while a
   separator and an element follow, take both; otherwise stop before the
   separator. *)
RECURSIVE SearchList(_, _, _)
SearchList(input, i, list) ==
    IF ~StartsAt(input, i, <<" ">>) THEN [i |-> i, list |-> list]
    ELSE LET e == SearchElement(input, i + 1)
         IN  IF e.ok THEN SearchList(input, e.i, Append(list, e.val))
             ELSE [i |-> i, list |-> list]

SearchOk(input, i, ret) ==
    [kind |-> "Ok", rest |-> SubSeq(input, i + 1, Len(input)), val |-> ret]

(* The second alternative of both parsers: the bare line, with the value
   the parser gives for it. *)
SearchBare(input, empty) ==
    IF StartsAt(input, 0, <<SearchTag, CR, LF>>)
    THEN SearchOk(input, 3, empty)
    ELSE ParseErr

search_results(input) ==
    IF ~StartsAt(input, 0, <<SearchTag, " ">>) THEN SearchBare(input, <<>>)
    ELSE LET first == SearchElement(input, 2)
         IN  IF ~first.ok THEN SearchBare(input, <<>>)
             ELSE LET l == SearchList(input, first.i, <<first.val>>)
                  IN  IF StartsAt(input, l.i, <<CR, LF>>)
                      THEN SearchOk(input, l.i + 2, l.list)
                      ELSE SearchBare(input, <<>>)

search_results_raw(input) ==
    IF ~StartsAt(input, 0, <<SearchTag, " ">>) THEN SearchBare(input, <<>>)
    ELSE LET j == take_until(<<CR, LF>>, input, 2)
         IN  IF j >= 0 THEN SearchOk(input, j + 2, SubSeq(input, 3, j))
             ELSE SearchBare(input, <<>>)

(* The inputs: every run of at most MaxSearch bytes after the eight bytes
   of SearchTag, and the runs of at most two bytes without them.  "1" and
   "2" are the digits, "+" the byte that is none. *)
SearchBytes == {" ", "1", "2", "+", CR, LF}

SearchBodies == UNION {[1..n -> SearchBytes] : n \in 0..MaxSearch}

SearchInputs ==
    {b \in SearchBodies : Len(b) <= 2}
        \cup {<<SearchTag>> \o b : b \in SearchBodies}

SearchResults == Parse("search_results", search_results(parse.input))

SearchResultsRaw ==
    Parse("search_results_raw", search_results_raw(parse.input))

InitSearch == ParseInit(SearchInputs)

NextSearch == SearchResults \/ SearchResultsRaw

SpecSearch == InitSearch /\ [][NextSearch]_vars

-----------------------------------------------------------------------------
(***************************************************************************)
(* ThreadIterator (thread.rs): the walk over Threads.tree with pos and a   *)
(* stack of the positions it descended through.                            *)
(***************************************************************************)
(* The list the stack leads to: tree[i].children for each i of the stack in
   turn (children is Some for every position that was pushed). *)
RECURSIVE LevelOf(_, _)
LevelOf(nodes, stack) ==
    IF stack = <<>> THEN nodes
    ELSE LevelOf(nodes[stack[1] + 1].children, Tail(stack))

(* A walk that never descends: the next node of the level, if any. *)
thread_next_level(nodes, pos, stack) ==
    IF pos = Len(nodes) THEN [some |-> FALSE, pos |-> pos, stack |-> stack]
    ELSE [some |-> TRUE, pos |-> pos + 1, stack |-> stack,
          item |-> nodes[pos + 1].id]

(* ThreadIterator::next.  At the end of a level it pops the stack and calls
   itself again; at the end of the top level it returns None. *)
RECURSIVE thread_next(_, _, _)
thread_next(nodes, pos, stack) ==
    LET level == LevelOf(nodes, stack)
    IN  IF pos = Len(level)
        THEN IF stack = <<>>
             THEN [some |-> FALSE, pos |-> pos, stack |-> stack]
             ELSE thread_next(nodes, stack[Len(stack)] + 1,
                              SubSeq(stack, 1, Len(stack) - 1))
        ELSE IF level[pos + 1].children # <<>>
             THEN [some |-> TRUE, pos |-> 0, stack |-> Append(stack, pos),
                   item |-> level[pos + 1].id]
             ELSE [some |-> TRUE, pos |-> pos + 1, stack |-> stack,
                   item |-> level[pos + 1].id]

(* IntoIterator for &Threads: a new iterator at the start; an earlier one
   is dropped. *)
IntoIter ==
    /\ tpc = "tree"
    /\ iter.kind \in {"none", "thread"}
    /\ iter.made < MaxIters
    /\ iter' = [NoIter EXCEPT !.kind = "thread", !.made = iter.made + 1]
    /\ UNCHANGED <<threadVars, imapVars, opVars, folderVars, listVars,
                   parseVars, sortVars, lockVars>>

ThreadNext ==
    /\ iter.kind = "thread"
    /\ LET r == thread_next(tree, iter.pos, iter.stack)
       IN iter' = IF r.some
                  THEN [iter EXCEPT !.pos = r.pos, !.stack = r.stack,
                                    !.out = Append(@, r.item)]
                  ELSE [iter EXCEPT !.pos = r.pos, !.stack = r.stack,
                                    !.done = TRUE]
    /\ UNCHANGED <<threadVars, imapVars, opVars, folderVars, listVars,
                   parseVars, sortVars, lockVars>>

(* The trees of the containers 1..n in which parent[i] (0 for a root) is
   the parent of i: the nodes below `above`, from the i-th container on, in
   the order of their ids. *)
RECURSIVE TreeBelow(_, _, _)
TreeBelow(parent, above, i) ==
    IF i > Len(parent) THEN <<>>
    ELSE IF parent[i] # above THEN TreeBelow(parent, above, i + 1)
    ELSE LET children == TreeBelow(parent, i, i + 1)
         IN  <<IF children = <<>> THEN Leaf(i) ELSE Node(i, children)>>
                 \o TreeBelow(parent, above, i + 1)

(* Every way to hang each container below an earlier one or make it a
   root. *)
IterParents ==
    UNION {{p \in [1..n -> 0..(n - 1)] : \A i \in 1..n : p[i] < i} :
             n \in 0..MaxIterNodes}

(* A Threads value whose tree was built; its containers play no part in
   the walk. *)
InitIter ==
    /\ containers = <<>>
    /\ id_table = [m \in MsgIds |-> NONE]
    /\ collection = <<>>
    /\ root_set = {}
    /\ refused = FALSE
    /\ ImapIdle
    /\ FolderIdle
    /\ ListIdle
    /\ ParseIdle
    /\ IterIdle
    /\ LockIdle
    /\ folders = << >>
    /\ tag_index = {}
    /\ tpc = "tree"
    /\ \E p \in IterParents : tree = TreeBelow(p, 0, 1)
    /\ sort = <<"Date", "Desc">>
    /\ subsort = <<"Date", "Desc">>
    /\ sort_calls = 0
    /\ resorted = FALSE
    /\ threaded_collection = <<>>

NextIter == IntoIter \/ ThreadNext

SpecIter == InitIter /\ [][NextIter]_vars

(* The caller of an iterator goes on calling next() until it returns
   None. *)
SpecIterFair == SpecIter /\ WF_vars(ThreadNext)

-----------------------------------------------------------------------------
(***************************************************************************)
(* The locks of ImapType (imap.rs): every call as the sequence of lock     *)
(* acquisitions and releases it makes, in program order.  What a call does *)
(* between two of them cannot block on a lock.                             *)
(***************************************************************************)
LockCallers == 1..MaxCallers

(* Mutex::lock, RwLock::read, RwLock::write, and the end of a guard. *)
Lock(l) == [a |-> "acq", l |-> l, m |-> "x"]

Read(l) == [a |-> "acq", l |-> l, m |-> "r"]

Write(l) == [a |-> "acq", l |-> l, m |-> "w"]

Drop(l) == [a |-> "rel", l |-> l, m |-> "x"]

(* get(): the caller reads the mailbox map; the worker takes the
   connection, stores can_create_flags, takes uidvalidity, permissions and
   exists in one block, takes tag_index for the loop, and in the loop
   hash_index, uid_index and unseen one after the other; drop(conn) comes
   before the end of the closure, where tag_lck goes. *)
GetLocks ==
    <<Read("folders"), Drop("folders"), Lock("connection"),
      Lock("can_create_flags"), Drop("can_create_flags"),
      Lock("uidvalidity"), Lock("permissions"), Lock("exists"),
      Drop("exists"), Drop("permissions"), Drop("uidvalidity"),
      Write("tag_index"), Lock("hash_index"), Drop("hash_index"),
      Lock("uid_index"), Drop("uid_index"), Lock("unseen"), Drop("unseen"),
      Drop("connection"), Drop("tag_index")>>

(* folders(): the read of the cached map, then the write guard under which
   imap_folders takes the connection and the loop takes uidvalidity. *)
FoldersLocks ==
    <<Read("folders"), Drop("folders"), Write("folders"),
      Lock("connection"), Drop("connection"), Lock("uidvalidity"),
      Drop("uidvalidity"), Drop("folders")>>

(* operation(): the hash_index guard is a temporary of the first
   statement. *)
OperationLocks ==
    <<Lock("hash_index"), Drop("hash_index"), Read("folders"),
      Drop("folders")>>

(* save(): permissions inside the block that reads the map, then the
   connection. *)
SaveLocks ==
    <<Read("folders"), Lock("permissions"), Drop("permissions"),
      Drop("folders"), Lock("connection"), Drop("connection")>>

(* A search() that takes the connection before the mailbox map. *)
SearchLocksConnectionFirst ==
    <<Lock("connection"), Read("folders"), Lock("uid_index"),
      Drop("uid_index"), Drop("folders"), Drop("connection")>>

(* search(): the map, the connection, and uid_index on the SEARCH line;
   the guards end in the reverse order. *)
SearchLocks ==
    <<Read("folders"), Lock("connection"), Lock("uid_index"),
      Drop("uid_index"), Drop("connection"), Drop("folders")>>

(* The head of create_folder, delete_folder, rename_folder and
   set_folder_subscription: the write guard of the map, and the connection
   in an inner block. *)
FolderOpLocks ==
    <<Write("folders"), Lock("connection"), Drop("connection"),
      Drop("folders")>>

(* create_folder and delete_folder end with self.folders(). *)
RelistLocks == FolderOpLocks \o FoldersLocks

(* rename_folder reads the map once more after self.folders(). *)
RenameFolderLocks == RelistLocks \o <<Read("folders"), Drop("folders")>>

LockCalls ==
    {"get", "folders", "operation", "save", "search", "create_folder",
     "delete_folder", "rename_folder", "set_folder_subscription"}

LockProgram(op) ==
    CASE op = "get" -> GetLocks
      [] op = "folders" -> FoldersLocks
      [] op = "operation" -> OperationLocks
      [] op = "save" -> SaveLocks
      [] op = "search" -> SearchLocks
      [] op = "create_folder" -> RelistLocks
      [] op = "delete_folder" -> RelistLocks
      [] op = "rename_folder" -> RenameFolderLocks
      [] op = "set_folder_subscription" -> FolderOpLocks

(* The guards alive after the first pc steps of a program. *)
RECURSIVE HeldAfter(_, _)
HeldAfter(prog, pc) ==
    IF pc = 0 THEN {}
    ELSE LET before == HeldAfter(prog, pc - 1)
             s == prog[pc]
         IN  IF s.a = "acq" THEN before \cup {[l |-> s.l, m |-> s.m]}
             ELSE {g \in before : g.l # s.l}

Running(t) == lk[t].op # "none"

Held(t) ==
    IF Running(t) THEN HeldAfter(LockProgram(lk[t].op), lk[t].pc) ELSE {}

AtEnd(t) == lk[t].pc = Len(LockProgram(lk[t].op))

(* The step the caller is at. *)
NextLock(t) == LockProgram(lk[t].op)[lk[t].pc + 1]

Requests(t) == Running(t) /\ ~AtEnd(t) /\ NextLock(t).a = "acq"

(* The callers whose guards keep t from the lock it requests: any holder
   for a Mutex or a write, a writer for a read.  A caller that holds the
   lock itself is among them. *)
Holders(t) ==
    {u \in LockCallers :
        \E g \in Held(u) :
            /\ g.l = NextLock(t).l
            /\ NextLock(t).m = "r" => g.m = "w"}

(* The callers in the queue of a RwLock for writing: an implementation
   that prefers writers makes a read wait for them too. *)
QueuedWriters(t) ==
    {u \in LockCallers \ {t} :
        /\ NextLock(t).m = "r"
        /\ Requests(u)
        /\ NextLock(u).l = NextLock(t).l
        /\ NextLock(u).m = "w"}

(* A call begins. *)
LockCall(t, op) ==
    /\ ~Running(t)
    /\ lk' = [lk EXCEPT ![t] = [op |-> op, pc |-> 0]]
    /\ UNCHANGED <<threadVars, imapVars, opVars, folderVars, listVars,
                   parseVars, iterVars, sortVars, selected>>

(* The call takes the lock it requests, or a guard of it ends. *)
LockStep(t) ==
    /\ Running(t) /\ ~AtEnd(t)
    /\ Requests(t) => Holders(t) = {}
    /\ lk' = [lk EXCEPT ![t].pc = @ + 1]
    /\ UNCHANGED <<threadVars, imapVars, opVars, folderVars, listVars,
                   parseVars, iterVars, sortVars, selected>>

(* The call returns, at its end or earlier with an error or a cached
   result: every guard it holds ends.  It cannot return while it waits for
   a lock. *)
LockReturn(t) ==
    /\ Running(t)
    /\ ~Requests(t)
    /\ lk' = [lk EXCEPT ![t] = [op |-> "none", pc |-> 0]]
    /\ UNCHANGED <<threadVars, imapVars, opVars, folderVars, listVars,
                   parseVars, iterVars, sortVars, selected>>

InitLocks ==
    /\ ThreadIdle
    /\ ImapIdle
    /\ FolderIdle
    /\ ListIdle
    /\ ParseIdle
    /\ IterIdle
    /\ SortIdle
    /\ folders = << >>
    /\ tag_index = {}
    /\ lk = [t \in LockCallers |-> [op |-> "none", pc |-> 0]]
    /\ selected = "none"

NextLocks ==
    \E t \in LockCallers :
        \/ \E op \in LockCalls : LockCall(t, op)
        \/ LockStep(t)
        \/ LockReturn(t)

SpecLocks == InitLocks /\ [][NextLocks]_vars

-----------------------------------------------------------------------------
(***************************************************************************)
(* The commands of concurrent calls on one connection (imap.rs,            *)
(* imap/operations.rs): every call as the sequence of its connection       *)
(* guards and the commands it sends under them.  examine_mailbox,          *)
(* select_mailbox and try_lock are in connection.rs: the first two send    *)
(* EXAMINE or SELECT for the mailbox, try_lock gives up after its timeout. *)
(***************************************************************************)
SelectMailboxes == {"INBOX", "Sent"}

(* try_lock(&connection, timeout) *)
TryConn == [a |-> "acq", l |-> "connection", m |-> "try"]

(* SELECT or EXAMINE of the call's mailbox, a UID command, and a command
   after which no mailbox is selected (UNSELECT, DELETE of the selected
   mailbox). *)
Select == [a |-> "select", l |-> "none", m |-> "x"]

Uid == [a |-> "uid", l |-> "none", m |-> "x"]

Deselect == [a |-> "deselect", l |-> "none", m |-> "x"]

(* The get() worker: SELECT, EXAMINE and the UID FETCH of two batches under
   one guard. *)
GetCommands ==
    <<Lock("connection"), Select, Select, Uid, Uid, Drop("connection")>>

(* search(): EXAMINE and UID SEARCH under one guard. *)
SearchCommands ==
    <<Lock("connection"), Select, Uid, Drop("connection")>>

(* delete_folder() on a server without UNSELECT: SELECT, EXAMINE, DELETE;
   on one with it: UNSELECT, DELETE. *)
DeleteFolderCommands ==
    <<Lock("connection"), Select, Select, Deselect, Drop("connection")>>

UnselectCommands ==
    <<Lock("connection"), Deselect, Deselect, Drop("connection")>>

(* A lookup that lets go of the connection between EXAMINE and the UID
   command. *)
FetchFlagsCommandsTwoGuards ==
    <<TryConn, Select, Drop("connection"), TryConn, Uid, Drop("connection")>>

(* fetch_flags on a cache miss (as_bytes alike): try_lock, examine_mailbox,
   UID FETCH. *)
FetchFlagsCommands == <<TryConn, Select, Uid, Drop("connection")>>

(* set_flag: its fetch_flags, then try_lock, select_mailbox, UID STORE. *)
SetFlagCommands ==
    FetchFlagsCommands \o <<TryConn, Select, Uid, Drop("connection")>>

(* set_tag: try_lock, select_mailbox, UID STORE. *)
SetTagCommands == <<TryConn, Select, Uid, Drop("connection")>>

CommandCalls ==
    {"get", "search", "delete_folder", "delete_folder_unselect",
     "fetch_flags", "set_flag", "set_tag"}

CommandProgram(op) ==
    CASE op = "get" -> GetCommands
      [] op = "search" -> SearchCommands
      [] op = "delete_folder" -> DeleteFolderCommands
      [] op = "delete_folder_unselect" -> UnselectCommands
      [] op = "fetch_flags" -> FetchFlagsCommands
      [] op = "set_flag" -> SetFlagCommands
      [] op = "set_tag" -> SetTagCommands

(* The step the caller is at, and whether it holds the connection. *)
NextCommand(t) == CommandProgram(lk[t].op)[lk[t].pc + 1]

Sending(t) == Running(t) /\ lk[t].pc < Len(CommandProgram(lk[t].op))

HoldsConn(t) ==
    Running(t) /\ HeldAfter(CommandProgram(lk[t].op), lk[t].pc) # {}

ConnFree == \A u \in LockCallers : ~HoldsConn(u)

(* A call on a mailbox begins. *)
CommandCall(t, op, m) ==
    /\ ~Running(t)
    /\ lk' = [lk EXCEPT ![t] = [op |-> op, pc |-> 0, m |-> m]]
    /\ UNCHANGED <<threadVars, imapVars, opVars, folderVars, listVars,
                   parseVars, iterVars, sortVars, selected>>

(* The call takes the connection, sends its next command and reads the
   response, or its guard ends. *)
CommandStep(t) ==
    /\ Sending(t)
    /\ NextCommand(t).a = "acq" => ConnFree
    /\ lk' = [lk EXCEPT ![t].pc = @ + 1]
    /\ selected' = CASE NextCommand(t).a = "select" -> lk[t].m
                     [] NextCommand(t).a = "deselect" -> "none"
                     [] OTHER -> selected
    /\ UNCHANGED <<threadVars, imapVars, opVars, folderVars, listVars,
                   parseVars, iterVars, sortVars>>

(* The call returns: at its end, with an error of the command it was to
   send (a refused SELECT or EXAMINE leaves no mailbox selected), or when
   try_lock gave up.  It cannot return while it waits in lock(). *)
CommandReturn(t) ==
    /\ Running(t)
    /\ Sending(t) /\ NextCommand(t).a = "acq" =>
           NextCommand(t).m = "try" /\ ~ConnFree
    /\ lk' = [lk EXCEPT ![t] = [op |-> "none", pc |-> 0]]
    /\ selected' = IF Sending(t) /\ NextCommand(t).a = "select"
                   THEN "none" ELSE selected
    /\ UNCHANGED <<threadVars, imapVars, opVars, folderVars, listVars,
                   parseVars, iterVars, sortVars>>

InitSelect == InitLocks

NextSelect ==
    \E t \in LockCallers :
        \/ \E op \in CommandCalls, m \in SelectMailboxes :
              CommandCall(t, op, m)
        \/ CommandStep(t)
        \/ CommandReturn(t)

SpecSelect == InitSelect /\ [][NextSelect]_vars

-----------------------------------------------------------------------------
(***************************************************************************)
(* C1: after build_threads, no Container is reachable from itself by       *)
(* following one or more first_child / next_sibling edges, whatever the    *)
(* References headers (mutually cyclic ones included), duplicate           *)
(* Message-IDs and Sent-folder additions.                                  *)
(***************************************************************************)
Successors(threads, i) ==
    {threads[i].first_child, threads[i].next_sibling} \ {NONE}

OnCycle(threads, i) ==
    \E s \in Successors(threads, i) : i \in Reach(threads, s)

C1_Acyclic ==
    \A i \in 1..Len(containers) : ~OnCycle(containers, i)

(* build_threads has finished on a collection in which a reply arrived
   before the message it references, that message referenced the reply back
   (the link was refused), and a Sent-folder envelope was spliced in. *)
C1_Witness ==
    /\ tpc = "done"
    /\ refused
    /\ \E a, b \in 1..Len(containers) :
         /\ a # b
         /\ containers[a].message # NONE
         /\ containers[b].message # NONE
         /\ containers[a].parent = b
         /\ containers[b].first_child = a
    /\ Len(collection) > MaxEnvelopes
    /\ \E c \in 1..Len(containers) :
         containers[c].message = Len(collection)

-----------------------------------------------------------------------------
(***************************************************************************)
(* C2: for every envelope delivered on a result channel, fetched with UID   *)
(* u from mailbox m, hash_index[hash] = (u, m) and uid_index[u] = hash,     *)
(* also when two mailboxes hold the same UID.                              *)
(***************************************************************************)
Delivered ==
    UNION {UNION {chan[t][i].envs : i \in 1..Len(chan[t])} : t \in Threads}

IndexedBothWays(env) ==
    /\ env.hash \in DOMAIN hash_index
    /\ hash_index[env.hash] = <<env.uid, env.mailbox>>
    /\ env.uid \in DOMAIN uid_index
    /\ uid_index[env.uid] = env.hash

C2_IndexesAgree == \A env \in Delivered : IndexedBothWays(env)

(***************************************************************************)
(* C3: when SELECT reports UIDNEXT = n + 1 with n >= 1, the ranges of the   *)
(* UID FETCH commands of a get() that ran to the end are descending,       *)
(* pairwise disjoint and cover exactly 1..n.  For ranges lo..hi this is:    *)
(* the first ends at n, each next one ends just below the start of the one *)
(* before it, and the last starts at 1.                                    *)
(***************************************************************************)
FetchRanges(t) ==
    LET f == SelectSeq(th[t].cmds, LAMBDA c : c.cmd = "UID FETCH")
    IN [i \in 1..Len(f) |-> f[i].arg]

Partitions(ranges, n) ==
    /\ Len(ranges) >= 1
    /\ ranges[1][2] = n
    /\ ranges[Len(ranges)][1] = 1
    /\ \A i \in 1..Len(ranges) : ranges[i][1] <= ranges[i][2]
    /\ \A i \in 1..(Len(ranges) - 1) : ranges[i + 1][2] = ranges[i][1] - 1

GetSucceeded(t) ==
    th[t].op = "get" /\ th[t].pc = "done" /\ th[t].res = "ok"
                     /\ ~th[t].no_select

C3_RangesPartition ==
    \A t \in Threads :
        (GetSucceeded(t) /\ th[t].uidnext >= 2)
            => Partitions(FetchRanges(t), th[t].uidnext - 1)

(***************************************************************************)
(* C4: on every path of a get() worker the channel receives zero or more   *)
(* Ok payloads, then at most one Err payload, then exactly one Finished,   *)
(* which is the last message.                                              *)
(***************************************************************************)
Kinds(t) == [i \in 1..Len(chan[t]) |-> chan[t][i].kind]

(* Ok* Err? : what the channel may hold while the worker runs. *)
OkThenErr(ks) ==
    \A i \in 1..Len(ks) :
        /\ ks[i] \in {"Ok", "Err"}
        /\ ks[i] = "Err" => i = Len(ks)

ChannelComplete(ks) ==
    /\ Len(ks) >= 1
    /\ ks[Len(ks)] = "Finished"
    /\ OkThenErr(SubSeq(ks, 1, Len(ks) - 1))

WorkerEnded(t) == th[t].op = "get" /\ th[t].pc \in {"done", "panicked"}

C4_ChannelProtocol ==
    \A t \in Threads :
        /\ th[t].op = "get" /\ ~WorkerEnded(t) => OkThenErr(Kinds(t))
        /\ WorkerEnded(t) => ChannelComplete(Kinds(t))

(***************************************************************************)
(* C5: between a caller's send of a command and its read of the response,  *)
(* no other thread sends a command or reads a response on the connection:  *)
(* at most one thread has a command outstanding, and it holds the mutex.   *)
(***************************************************************************)
C5_NoInterleaving ==
    \A t \in pending : pending = {t}

(***************************************************************************)
(* C6: as_bytes on a cache miss, once the server has answered the UID      *)
(* FETCH with the requested UID and a body, terminates, returns the bytes, *)
(* leaves byte_cache[uid].bytes populated and the byte_cache lock free.    *)
(***************************************************************************)
Answered(t) == th[t].op = "as_bytes" /\ th[t].pc = "ab_relock"

ReturnedBytes(t) ==
    /\ th[t].op = "as_bytes" /\ th[t].pc = "done" /\ th[t].res = "bytes"
    /\ th[t].uid \in DOMAIN byte_cache
    /\ byte_cache[th[t].uid].bytes # "none"
    /\ cache_lock # t

C6_AsBytesCompletes ==
    \A t \in Threads : Answered(t) ~> ReturnedBytes(t)

(***************************************************************************)
(* C7: while another thread holds the connection mutex, an ImapOp call     *)
(* that needs the connection (its UID misses the cache, or it is set_flag  *)
(* or set_tag) eventually returns an error instead of blocking forever,    *)
(* and a call that timed out has left the byte cache unchanged.            *)
(***************************************************************************)
Misses(t) ==
    \/ th[t].op \in {"set_flag", "set_tag"}
    \/ th[t].uid \notin DOMAIN byte_cache
    \/ /\ th[t].op = "as_bytes"
       /\ byte_cache[th[t].uid].bytes = "none"
    \/ /\ th[t].op = "fetch_flags"
       /\ byte_cache[th[t].uid].flags = "none"

NeedsConnection(t) ==
    /\ th[t].op \in ImapOps
    /\ th[t].pc \in {"ab_lock", "ff_check"} \cup TryLockPcs
    /\ Misses(t)

ReturnedError(t) ==
    th[t].pc = "done" /\ th[t].res \in {"err", "timeout"}

C7_EventuallyErr ==
    \A t \in Threads :
        NeedsConnection(t)
            ~> (conn_lock # "worker" \/ ~Misses(t) \/ ReturnedError(t))

C7_CacheUntouched ==
    \A t \in Threads :
        (th[t].res = "timeout" /\ th[t].starved) => ~th[t].touched

C7_BoundedWait == C7_EventuallyErr /\ []C7_CacheUntouched

(***************************************************************************)
(* The last mailbox operation, for C8 to C10: its thread record and the    *)
(* mailbox record it found in the cache.                                   *)
(***************************************************************************)
LastOp == th[pre.t]

Ran(ops) == pre.t # "none" /\ LastOp.op \in ops

Target == pre.folders[LastOp.m]

RefusedUnsent == LastOp.res = "err" /\ LastOp.cmds = <<>>

(***************************************************************************)
(* C8: delete_folder on a mailbox whose cached delete_mailbox permission   *)
(* is false returns an error, sends no command and leaves the cached       *)
(* mailbox map as it was.                                                  *)
(***************************************************************************)
C8_DeleteDenied ==
    (Ran({"delete_folder"}) /\ ~Target.delete_mailbox)
        => (RefusedUnsent /\ folders = pre.folders)

(* A subscribed, selectable mailbox without the permission was the target:
   with the permission the call would have sent UNSUBSCRIBE first. *)
C8_Witness ==
    /\ Ran({"delete_folder"})
    /\ ~Target.delete_mailbox
    /\ Target.is_subscribed /\ ~Target.no_select
    /\ RefusedUnsent
    /\ folders = pre.folders

(***************************************************************************)
(* C9 as stated: each of the five mailbox operations returns an error      *)
(* before any command is sent when the target mailbox's recorded           *)
(* permissions do not grant the operation (here: grant nothing at all; for *)
(* create_folder, no cached mailbox grants anything).                      *)
(***************************************************************************)
GrantsNothing(f) ==
    ~f.delete_mailbox /\ ~f.change_permissions /\ ~f.create_messages

(* The call had something to do: the name is new, or the subscription
   differs from the one asked for. *)
HadWork ==
    \/ LastOp.op \in {"delete_folder", "rename_folder",
                      "set_folder_permissions"}
    \/ LastOp.op = "create_folder" /\ LastOp.m \notin DOMAIN pre.folders
    \/ LastOp.op = "set_folder_subscription"
          /\ ~(LastOp.res = "ok" /\ LastOp.cmds = <<>>)

NotPermitted ==
    IF LastOp.op = "create_folder"
    THEN \A m \in DOMAIN pre.folders : GrantsNothing(pre.folders[m])
    ELSE GrantsNothing(Target)

C9_AllFiveCheck ==
    (Ran({"create_folder", "delete_folder", "rename_folder",
          "set_folder_subscription", "set_folder_permissions"})
       /\ HadWork /\ NotPermitted)
        => RefusedUnsent

(***************************************************************************)
(* C9, amended: delete_folder and rename_folder test delete_mailbox, and   *)
(* set_folder_permissions tests change_permissions, before any command is  *)
(* sent; create_folder and set_folder_subscription test no permission.     *)
(***************************************************************************)
C9_CheckedOps ==
    /\ (Ran({"delete_folder", "rename_folder"}) /\ ~Target.delete_mailbox)
          => RefusedUnsent
    /\ (Ran({"set_folder_permissions"}) /\ ~Target.change_permissions)
          => RefusedUnsent

C9_Witness ==
    /\ Ran({"rename_folder"})
    /\ ~Target.delete_mailbox
    /\ LastOp.m \in server.mailboxes
    /\ RefusedUnsent

(***************************************************************************)
(* C10: when create_folder, delete_folder, rename_folder or                *)
(* set_folder_subscription returns an error, the cached mailbox map is     *)
(* unmodified and, if it listed the server before the call, still does.    *)
(***************************************************************************)
C10_FailureLeavesAgreement ==
    (Ran({"create_folder", "delete_folder", "rename_folder",
          "set_folder_subscription"}) /\ LastOp.res = "err")
        => /\ folders = pre.folders
           /\ pre.agreed => folders = Listed(server)

(***************************************************************************)
(* C11 as stated: after a successful create_folder, delete_folder,         *)
(* rename_folder or set_folder_subscription the cached map was cleared and *)
(* rebuilt by LIST then LSUB, so it equals what the server lists.          *)
(***************************************************************************)
ListedAgain ==
    /\ Len(LastOp.cmds) >= 2
    /\ SubSeq(LastOp.cmds, Len(LastOp.cmds) - 1, Len(LastOp.cmds))
          = <<Cmd("LIST", "*"), Cmd("LSUB", "*")>>

(* The call succeeded after doing something on the connection. *)
Succeeded(ops) == Ran(ops) /\ LastOp.res = "ok" /\ LastOp.cmds # <<>>

C12_SecondCallSame ==
    (Ran({"folders"}) /\ pre.listed)
        => (LastOp.res = "ok" /\ LastOp.cmds = <<>> /\ LastOp.ret = pre.ret)


-----------------------------------------------------------------------------
(***************************************************************************)
(* C13: imap_folders builds the same mailbox records and the same          *)
(* parent-to-children relation for every order of the LIST lines: when the *)
(* loop has consumed every line, each listed mailbox's entry carries the   *)
(* fields of its own line and has exactly its listed children, and a       *)
(* listed parent p of a listed mailbox f has f.hash among its children     *)
(* whether p's line came before or after f's.                              *)
(***************************************************************************)
Range(seq) == {seq[i] : i \in DOMAIN seq}

ListedPaths == {list_lines[i].path : i \in DOMAIN list_lines}

LineOf(path) == CHOOSE i \in DOMAIN list_lines : list_lines[i].path = path

ListedChildren(path) ==
    {list_lines[i].path : i \in {j \in DOMAIN list_lines :
                                    list_lines[j].parent = path}}

OwnFields(entry, line) ==
    /\ entry.hash = line.hash
    /\ entry.path = line.path
    /\ entry.parent = line.parent
    /\ entry.no_select = line.no_select

LoopDone == list_lines # <<>> /\ list_pos = Len(list_lines)

C13_OrderIndependent ==
    LoopDone =>
        /\ DOMAIN list_folders
             = ListedPaths \cup ({list_lines[i].parent : i \in DOMAIN list_lines}
                                    \ {NoPath})
        /\ \A f \in ListedPaths :
             /\ OwnFields(list_folders[f], list_lines[LineOf(f)])
             /\ Range(list_folders[f].children) = ListedChildren(f)
             /\ LET p == list_lines[LineOf(f)].parent
                IN p \in ListedPaths =>
                     /\ OwnFields(list_folders[p], list_lines[LineOf(p)])
                     /\ f \in Range(list_folders[p].children)

(* A child was listed before its parent, and the loop has finished. *)
C13_Witness ==
    /\ LoopDone
    /\ \E f, p \in ListedPaths :
         /\ list_lines[LineOf(f)].parent = p
         /\ LineOf(f) < LineOf(p)
         /\ list_lines[LineOf(p)].no_select


-----------------------------------------------------------------------------
(***************************************************************************)
(* C14: once byte_cache holds the flags (the bytes) of a UID, fetch_flags  *)
(* (as_bytes) for that UID returns the cached value, never holds or waits  *)
(* for the connection mutex and sends no command; a command is sent only   *)
(* on a miss.                                                              *)
(***************************************************************************)
Lookups == {"fetch_flags", "as_bytes"}

C14_HitNeedsNoConnection ==
    \A t \in Threads :
        (th[t].op \in Lookups /\ th[t].held) =>
            /\ th[t].cmds = <<>>
            /\ conn_lock # t
            /\ th[t].pc \notin TryLockPcs
            /\ th[t].pc \in {"done", "panicked"} =>
                   /\ th[t].res \in {"flags", "bytes"}
                   /\ th[t].val # "none"


-----------------------------------------------------------------------------
(***************************************************************************)
(* C15: on a cache miss, fetch_flags returns an error whenever the reply   *)
(* holds zero or more than one FETCH response, and that step leaves        *)
(* byte_cache as it was; it goes on to cache and return flags only when    *)
(* the reply holds exactly one FETCH response, for the requested UID.      *)
(***************************************************************************)
Fetched(t) == th[t].op = "fetch_flags" /\ th[t].cmds # <<>>

NotOneResponse(t) ==
    /\ th[t].op = "fetch_flags" /\ th[t].pc = "ff_fetch"
    /\ th'[t].cmds # <<>>
    /\ th'[t].v.responses # 1

C15_OneResponseOrError ==
    /\ [][\A t \in Threads :
            NotOneResponse(t) =>
                /\ th'[t].pc = "done" /\ th'[t].res = "err"
                /\ byte_cache' = byte_cache]_vars
    /\ [](\A t \in Threads :
            (Fetched(t) /\ (th[t].pc = "ff_store" \/ th[t].res = "flags")) =>
                /\ th[t].v = [responses |-> 1, uid |-> th[t].uid]
                /\ th[t].pc = "done" => byte_cache[th[t].uid].flags # "none")

(* A fetch_flags that got two FETCH responses has returned an error, the
   flags of its UID still unset. *)
C15_Witness ==
    \E t \in Threads :
        /\ Fetched(t) /\ th[t].pc = "done" /\ th[t].res = "err"
        /\ th[t].v.responses = 2
        /\ byte_cache[th[t].uid].flags = "none"


-----------------------------------------------------------------------------
(***************************************************************************)
(* C16: when set_flag(f, value) returns Ok, byte_cache[uid].flags is the   *)
(* flag set it sent in UID STORE ... FLAGS.SILENT, which is the flags its  *)
(* fetch_flags returned with f set to value; a set_flag that ends in an    *)
(* error leaves byte_cache as it was.                                      *)
(***************************************************************************)
SetFlagEnds(t, res) ==
    /\ th[t].op = "set_flag" /\ th[t].pc \in {"sf_store", "sf_cache"}
    /\ th'[t].pc = "done" /\ th'[t].res = res

StoreSent(t) == th'[t].cmds[Len(th'[t].cmds)]

C16_CacheIsWhatWasSent ==
    [][\A t \in Threads :
         /\ SetFlagEnds(t, "ok") =>
              /\ StoreSent(t).cmd = "UID STORE"
              /\ StoreSent(t).arg.uid = th[t].uid
              /\ byte_cache'[th[t].uid].flags = StoreSent(t).arg.flags
              /\ Bits(StoreSent(t).arg.flags)
                   = IF th[t].set.value
                     THEN Bits(th[t].set.prev) \cup {th[t].set.f}
                     ELSE Bits(th[t].set.prev) \ {th[t].set.f}
         /\ SetFlagEnds(t, "err") => byte_cache' = byte_cache]_vars

(* set_flag(SEEN, false) has returned Ok on a message that was flagged and
   seen: the cache holds flagged alone. *)
C16_Witness ==
    \E t \in Threads :
        /\ th[t].op = "set_flag" /\ th[t].pc = "done" /\ th[t].res = "ok"
        /\ th[t].set = [f |-> "SEEN", value |-> FALSE, prev |-> "seen flagged"]
        /\ byte_cache[th[t].uid].flags = "flagged"


-----------------------------------------------------------------------------
(***************************************************************************)
(* C17: save sends nothing when the target mailbox is unknown or its       *)
(* create_messages permission is false; otherwise what it sends and reads  *)
(* is a prefix of: APPEND, continuation request, literal, tagged response, *)
(* in that order, all of it under one hold of the connection mutex, which  *)
(* it gives up only by returning.                                          *)
(***************************************************************************)
IsPrefix(a, b) == Len(a) <= Len(b) /\ a = SubSeq(b, 1, Len(a))

Saving(t) == th[t].op = "save"

SaveRefused(t) ==
    th[t].m \notin DOMAIN folders \/ ~folders[th[t].m].create_messages

C17_SaveConversation ==
    /\ [](\A t \in Threads :
            Saving(t) =>
              /\ SaveRefused(t) =>
                   /\ th[t].cmds = <<>> /\ conn_lock # t
                   /\ th[t].pc = "done" /\ th[t].res = "err"
              /\ IsPrefix(th[t].cmds, SaveConversation(th[t].m))
              /\ th[t].res = "ok" => th[t].cmds = SaveConversation(th[t].m)
              /\ (th[t].cmds # <<>> /\ th[t].pc # "done") => conn_lock = t)
    /\ [][\A t \in Threads :
            (Saving(t) /\ conn_lock = t /\ conn_lock' # t) =>
                th'[t].pc = "done"]_vars

(* One save has sent its literal and is about to read the tagged response
   while the other thread's save waits for the connection. *)
C17_Witness ==
    \E t, u \in Threads :
        /\ Saving(t) /\ th[t].pc = "save_read" /\ conn_lock = t
        /\ th[t].cmds = SubSeq(SaveConversation("INBOX"), 1, 3)
        /\ Saving(u) /\ th[u].pc = "save_lock"


-----------------------------------------------------------------------------
(***************************************************************************)
(* C18: search returns, in the order of the "* SEARCH" line, uid_index[u]  *)
(* for exactly the listed UIDs u that are keys of uid_index; a listed UID  *)
(* without an entry is dropped without an error, and a reply without a     *)
(* "* SEARCH" line is an error.                                            *)
(***************************************************************************)
RECURSIVE IndexedOf(_)
IndexedOf(uids) ==
    IF uids = <<>> THEN <<>>
    ELSE (IF Head(uids) \in DOMAIN uid_index
          THEN <<uid_index[Head(uids)]>> ELSE <<>>) \o IndexedOf(Tail(uids))

SearchReturns(t) ==
    /\ th[t].op = "search" /\ th[t].pc = "search_read"
    /\ th'[t].pc = "done"

C18_SearchMapsListedUids ==
    [][\A t \in Threads :
         SearchReturns(t) =>
            IF th'[t].reply.search
            THEN /\ th'[t].res = "ok"
                 /\ th'[t].hashes = IndexedOf(th'[t].reply.uids)
            ELSE th'[t].res = "err"]_vars

(* A search has returned one hash for a line of two UIDs, the first of
   which is not indexed. *)
C18_Witness ==
    \E t \in Threads :
        /\ th[t].op = "search" /\ th[t].res = "ok"
        /\ Len(th[t].reply.uids) = 2
        /\ th[t].reply.uids[1] \notin DOMAIN uid_index
        /\ Len(th[t].hashes) = 1
        /\ th[t].hashes[1] = uid_index[th[t].reply.uids[2]]


-----------------------------------------------------------------------------
(***************************************************************************)
(* C19: after build_threads, a container without message and without       *)
(* parent whose first_child has no next_sibling is not in root_set, its    *)
(* sole child is in root_set instead, and every other container without    *)
(* parent is in root_set.                                                  *)
(***************************************************************************)
Built == tpc = "done"

Collapsible(c) ==
    /\ containers[c].message = NONE
    /\ containers[c].parent = NONE
    /\ containers[c].first_child # NONE
    /\ containers[containers[c].first_child].next_sibling = NONE

-----------------------------------------------------------------------------
(***************************************************************************)
(* C20: a Threads::sort_by call with the (sort, subsort) keys of the call  *)
(* before it runs no inner sort and leaves the tree and the container      *)
(* arena as they were.                                                     *)
(***************************************************************************)
SameKeysAgain ==
    /\ sort_calls >= 1
    /\ sort_calls' = sort_calls + 1
    /\ sort' = sort /\ subsort' = subsort

C20_SortIsMemoized ==
    [][SameKeysAgain =>
          /\ tree' = tree
          /\ containers' = containers
          /\ ~resorted']_vars

(* The second of two sort_by calls with the same keys has returned; the
   first one sorted by subject a tree whose comparison is no total order. *)
C20_Witness ==
    /\ sort_calls = 2 /\ ~resorted
    /\ sort = <<"Subject", "Asc">>
    /\ ~TotalOrder(containers, collection, sort, RootIds(tree))

(***************************************************************************)
(* C25: after build_threads the date of every container is at least the   *)
(* date of its own message and of every message held below it, whatever   *)
(* the arrival order of the envelopes.                                     *)
(***************************************************************************)
Below(threads, c) ==
    {c} \cup (IF threads[c].first_child = NONE THEN {}
              ELSE Reach(threads, threads[c].first_child))

C25_RollingDate ==
    Built =>
      \A c \in 1..Len(containers) :
        \A d \in Below(containers, c) :
          containers[d].message # NONE =>
            containers[c].date >= collection[containers[d].message].date

-----------------------------------------------------------------------------
(***************************************************************************)
(* C26: each UID FETCH command issued by get() requests a range of at most *)
(* 500 UIDs.                                                               *)
(***************************************************************************)
RangeSize(range) == range[2] - range[1] + 1

C26_BatchAtMost500 ==
    \A t \in Threads :
        th[t].op = "get" =>
            \A i \in 1..Len(th[t].cmds) :
                th[t].cmds[i].cmd = "UID FETCH" =>
                    RangeSize(th[t].cmds[i].arg) <= BatchSize

-----------------------------------------------------------------------------
(***************************************************************************)
(* C27: after each batch of get(), and when get() has finished             *)
(* successfully, the mailbox's shared unseen counter equals the number of  *)
(* distinct messages fetched so far whose flags lack SEEN; no message is   *)
(* counted twice across batches.                                           *)
(***************************************************************************)
FetchedSoFar(t) == UNION {chan[t][i].envs : i \in 1..Len(chan[t])}

UnseenFetched(t) == {e.uid : e \in {x \in FetchedSoFar(t) : ~x.seen}}

(* No later get() on the same mailbox has begun to write the counter. *)
LastWriter(t) ==
    \A u \in Threads \ {t} :
        ~(th[u].op = "get" /\ th[u].m = th[t].m /\ th[u].pc # "done")

AfterBatch(t) ==
    /\ th[t].op = "get"
    /\ \E i \in 1..Len(chan[t]) : chan[t][i].kind = "Ok"
    /\ \/ th[t].pc = "fetch"
       \/ GetSucceeded(t) /\ conn_lock = "free" /\ LastWriter(t)

C27_UnseenCountsDistinct ==
    \A t \in Threads :
        AfterBatch(t) =>
            folders[th[t].m].unseen = Cardinality(UnseenFetched(t))

-----------------------------------------------------------------------------
(***************************************************************************)
(* C28: after sort_by((field, order), ...) the top level of the tree is    *)
(* ordered by the requested key in the requested direction, for all four   *)
(* keys: Date by container date, Subject by message subject, Asc           *)
(* non-decreasing and Desc non-increasing.                                 *)
(***************************************************************************)
(* Containers a, b, in this order, respect the key; a subject is compared
   only between two containers that hold a message. *)
InKeyOrder(key, a, b) ==
    LET ka == IF key[1] = "Date" THEN containers[a].date
              ELSE collection[containers[a].message].subject
        kb == IF key[1] = "Date" THEN containers[b].date
              ELSE collection[containers[b].message].subject
    IN IF key[2] = "Asc" THEN ka <= kb ELSE ka >= kb

Comparable(key, a, b) ==
    key[1] = "Date"
      \/ (containers[a].message # NONE /\ containers[b].message # NONE)

OrderedBy(key, ids) ==
    \A i, j \in DOMAIN ids :
        (i < j /\ Comparable(key, ids[i], ids[j]))
            => InKeyOrder(key, ids[i], ids[j])

C28_TopLevelOrdered ==
    sort_calls >= 1 => OrderedBy(sort, RootIds(tree))

-----------------------------------------------------------------------------
(***************************************************************************)
(* C29: after sort_by(sort, subsort, ...) the children list of every       *)
(* parent node of the tree, at every depth, is ordered by the subsort key, *)
(* whatever the top-level sort key.                                        *)
(***************************************************************************)
(* Every node of the trees in the list, at every depth. *)
RECURSIVE AllNodes(_)
AllNodes(nodes) ==
    UNION {{nodes[k]} \cup AllNodes(nodes[k].children) : k \in DOMAIN nodes}

C29_ChildrenOrdered ==
    sort_calls >= 1 =>
        \A n \in AllNodes(tree) : OrderedBy(subsort, RootIds(n.children))

-----------------------------------------------------------------------------
(***************************************************************************)
(* C30: after Threads::build_collection, a non-root container with a       *)
(* message has show_subject = FALSE exactly when its subject equals the    *)
(* subject of its thread's root, or starts with "Re: " and ends with the   *)
(* root's subject, at every depth: the comparison is against the thread    *)
(* root, not the immediate parent.                                         *)
(***************************************************************************)
TreeBuilt == tpc = "tree"

SubjectOf(c) == collection[containers[c].message].subject

C30_HiddenIffSameAsRoot ==
    TreeBuilt =>
        \A k \in DOMAIN tree :
            containers[tree[k].id].message # NONE =>
                \A n \in AllNodes(tree[k].children) :
                    containers[n.id].message # NONE =>
                        (~containers[n.id].show_subject
                            <=> SameSubject(SubjectOf(n.id),
                                            SubjectOf(tree[k].id)))

-----------------------------------------------------------------------------
(***************************************************************************)
(* C21: for every input string, uid_fetch_response and uid_fetch_responses *)
(* return a parsed result or an error value and never panic, also on "* "  *)
(* alone, on a sequence number that runs to the end of the input and on    *)
(* "UID " followed by a non-digit.                                         *)
(***************************************************************************)
FetchCalled == parse.fn \in {"uid_fetch_response", "uid_fetch_responses"}

C21_FetchParsersReturn ==
    FetchCalled => parse.res.kind \in {"Ok", "Err"}

-----------------------------------------------------------------------------
(***************************************************************************)
(* C22: when the response holds RFC822 {n} CRLF followed by at least n     *)
(* bytes, uid_fetch_response returns as body exactly the n bytes after the *)
(* CRLF, whatever ")" or CRLF they contain, and goes on parsing right      *)
(* after them; when fewer than n bytes follow, parsing fails.              *)
(***************************************************************************)
(* The input begins with the response header and an RFC822 literal with a
   one-digit count. *)
LiteralFirst ==
    /\ parse.fn = "uid_fetch_response"
    /\ Len(parse.input) >= Len(FetchHeader) + 5
    /\ \E n \in 0..9 :
         SubSeq(parse.input, 1, Len(FetchHeader) + 5)
            = FetchHeader \o Literal(n, <<>>)

LiteralCount == DigitValue(parse.input[Len(FetchHeader) + 3])

LiteralData ==
    SubSeq(parse.input, Len(FetchHeader) + 6, Len(parse.input))

(* The result of parsing on after the body, with the body put in. *)
WithBody(r, body) ==
    IF r.kind = "Ok" /\ r.val.body = NoBody
    THEN [r EXCEPT !.val.body = body]
    ELSE r

C22_LiteralIsCounted ==
    LiteralFirst =>
        IF Len(LiteralData) < LiteralCount
        THEN parse.res = ParseErr
        ELSE IF is_char_boundary(LiteralData, LiteralCount)
        THEN parse.res
               = WithBody(
                   uid_fetch_response(
                     FetchHeader \o SubSeq(LiteralData, LiteralCount + 1,
                                           Len(LiteralData))),
                   SubSeq(LiteralData, 1, LiteralCount))
        ELSE parse.res.kind # "Panic"

-----------------------------------------------------------------------------
(***************************************************************************)
(* C23: converting a reply to Result<()> through ImapResponse classifies   *)
(* the last CRLF-terminated line by its status keyword: Ok for OK, PREAUTH *)
(* and BYE; for NO and BAD an error that carries the server's text,        *)
(* without the bracketed response code and without a trailing              *)
(* "(... secs)." suffix.                                                   *)
(***************************************************************************)
Converted == parse.fn = "ImapResponse"

C23_StatusToResult ==
    Converted =>
        \A e \in EarlierLines, w \in DOMAIN StatusWords, c \in StatusCodes,
           t \in StatusTexts, s \in TimingSuffixes :
            parse.input = e \o StatusLine(w, c, t, s) =>
                IF w \in {"OK", "PREAUTH", "BYE"}
                THEN parse.res = [kind |-> "Ok"]
                ELSE parse.res = [kind |-> "Err", msg |-> t]


(***************************************************************************)
(* C24: search_results parses a line "* SEARCH", zero or more decimal      *)
(* UIDs each after one space, CR LF into exactly the list of those UIDs in *)
(* their order (the empty list for the bare line), and search_results_raw  *)
(* returns the bytes between "* SEARCH " and the CR LF unchanged; both     *)
(* leave what follows the line as the rest.                                *)
(***************************************************************************)
(* The decimal text of n. *)
RECURSIVE ToDigits(_)
ToDigits(n) ==
    IF n < 10 THEN <<DigitBytes[n + 1]>>
    ELSE ToDigits(n \div 10) \o <<DigitBytes[(n % 10) + 1]>>

(* The text of a list of UIDs: each after one space. *)
RECURSIVE UidText(_)
UidText(uids) ==
    IF uids = <<>> THEN <<>>
    ELSE <<" ">> \o ToDigits(uids[1]) \o UidText(Tail(uids))

(* The element of the input (counted from 1) that holds the CR ending a
   SEARCH line: the tag, then nothing or groups of one space and at least
   one digit, then CR LF.  0 when the input does not begin with one. *)
SearchLineEnd(input) ==
    LET ends == {e \in 2..(Len(input) - 1) :
                    /\ input[1] = SearchTag
                    /\ input[e] = CR
                    /\ input[e + 1] = LF
                    /\ \A k \in 2..(e - 1) : input[k] \in is_digit \cup {" "}
                    /\ e > 2 => input[2] = " " /\ input[e - 1] \in is_digit
                    /\ \A k \in 2..(e - 2) :
                           ~(input[k] = " " /\ input[k + 1] = " ")}
    IN  IF ends = {} THEN 0 ELSE CHOOSE e \in ends : TRUE

SearchCalled == parse.fn \in {"search_results", "search_results_raw"}

C24_SearchResults ==
    LET e == SearchLineEnd(parse.input)
    IN  (SearchCalled /\ e > 0) =>
            /\ parse.res.kind = "Ok"
            /\ parse.res.rest = SubSeq(parse.input, e + 2, Len(parse.input))
            /\ parse.fn = "search_results" =>
                   SubSeq(parse.input, 2, e - 1) = UidText(parse.res.val)
            /\ parse.fn = "search_results_raw" =>
                   parse.res.val = SubSeq(parse.input, 3, e - 1)

(* search_results has parsed a line of two different UIDs. *)
C24_Witness ==
    /\ parse.fn = "search_results"
    /\ SearchLineEnd(parse.input) > 0
    /\ parse.res.kind = "Ok"
    /\ Len(parse.res.val) = 2
    /\ parse.res.val[1] # parse.res.val[2]


-----------------------------------------------------------------------------
(***************************************************************************)
(* C31: for every root that root_set_iter yields, the reported             *)
(* subtree_size is the number of containers with a message in the root's   *)
(* thread tree, the root included.                                         *)
(***************************************************************************)
(* The root's node in the tree. *)
RootNode(id) == tree[CHOOSE k \in DOMAIN tree : tree[k].id = id]

(* The containers with a message in the tree of the node. *)
MessagesOf(node) ==
    {n.id : n \in {m \in AllNodes(<<node>>) : containers[m.id].message # NONE}}

C31_SubtreeSize ==
    iter.kind = "root" =>
        \A k \in DOMAIN iter.out :
            iter.out[k].len = Cardinality(MessagesOf(RootNode(iter.out[k].id)))

-----------------------------------------------------------------------------
(***************************************************************************)
(* C32: for every root that root_set_iter yields, has_unseen is true       *)
(* exactly when at least one message of the thread, the root's own         *)
(* included, is not seen.                                                  *)
(***************************************************************************)
IsSeen(c) == collection[containers[c].message].seen

C32_HasUnseen ==
    iter.kind = "root" =>
        \A k \in DOMAIN iter.out :
            iter.out[k].has_unseen
                <=> \E c \in MessagesOf(RootNode(iter.out[k].id)) : ~IsSeen(c)


-----------------------------------------------------------------------------
(***************************************************************************)
(* C33: a ThreadIterator yields the ids of the presentation tree in        *)
(* depth-first pre-order (a parent before its children, the children in    *)
(* list order, a whole subtree before the next sibling), every node once,  *)
(* and then returns None; it always gets there, and a fresh iterator       *)
(* starts again from the first root.                                       *)
(***************************************************************************)
(* The ids of the trees of a list in depth-first pre-order. *)
RECURSIVE PreOrder(_)
PreOrder(nodes) ==
    IF nodes = <<>> THEN <<>>
    ELSE <<nodes[1].id>> \o PreOrder(nodes[1].children)
             \o PreOrder(Tail(nodes))

Walking == iter.kind = "thread"

C33_InPreOrder ==
    Walking =>
        /\ IsPrefix(iter.out, PreOrder(tree))
        /\ iter.done => iter.out = PreOrder(tree)

C33_PreOrderWalk == []C33_InPreOrder /\ (Walking ~> iter.done)

(* The second iterator over a tree with a node below a node below a root,
   and a root after it, has returned None. *)
C33_Witness ==
    /\ Walking
    /\ iter.made = 2
    /\ iter.done
    /\ Len(tree) >= 2
    /\ \E k \in DOMAIN tree[1].children : tree[1].children[k].children # <<>>


-----------------------------------------------------------------------------
(***************************************************************************)
(* C34: after build_threads, every envelope of the collection is the       *)
(* message of exactly one container, every container's message is an index *)
(* of the collection, and the container of an envelope appears exactly     *)
(* once in threaded_collection, also when two envelopes carry the same     *)
(* Message-ID.                                                             *)
(***************************************************************************)
(* The containers whose message is the i-th envelope. *)
ContainersOf(i) == {c \in DOMAIN containers : containers[c].message = i}

C34_IndexValid ==
    \A c \in DOMAIN containers :
        containers[c].message # NONE =>
            containers[c].message \in DOMAIN collection

C34_Threaded ==
    \A i \in DOMAIN collection :
        \A c \in ContainersOf(i) :
            Cardinality({k \in DOMAIN threaded_collection :
                            threaded_collection[k] = c}) = 1

C34_OneContainerEach ==
    TreeBuilt =>
        /\ \A i \in DOMAIN collection : Cardinality(ContainersOf(i)) = 1
        /\ C34_IndexValid
        /\ C34_Threaded


-----------------------------------------------------------------------------
(***************************************************************************)
(* C35: when two set_flag calls on the same message, each setting a        *)
(* different flag, have both returned Ok, the cached flags of the message  *)
(* hold both flags: no caller's update falls between another's read of the *)
(* current flags and its UID STORE.                                        *)
(***************************************************************************)
(* set_flag(f, true) on the thread has returned Ok. *)
FlagWasSet(t) ==
    /\ th[t].op = "set_flag" /\ th[t].pc = "done" /\ th[t].res = "ok"
    /\ th[t].set.value

C35_BothFlagsKept ==
    \A t1, t2 \in Threads :
        (/\ FlagWasSet(t1) /\ FlagWasSet(t2)
         /\ th[t1].uid = th[t2].uid
         /\ th[t1].set.f # th[t2].set.f)
            => {th[t1].set.f, th[t2].set.f}
                   \subseteq Bits(byte_cache[th[t1].uid].flags)


-----------------------------------------------------------------------------
(***************************************************************************)
(* C36: concurrent get(), folders(), search(), operation(), save() and     *)
(* create/delete/rename/set_subscription calls on one ImapType never       *)
(* deadlock: a call requests locks in the order mailbox map, connection,   *)
(* then the UID store's maps and the tag index, never an earlier one while *)
(* it holds a later one, and no group of calls waits on each other.        *)
(***************************************************************************)
(* The place of a lock in the order. *)
LockRank(l) ==
    CASE l = "folders" -> 1
      [] l = "connection" -> 2
      [] OTHER -> 3

LockOrderKept ==
    \A t \in LockCallers :
        Requests(t) =>
            \A g \in Held(t) : LockRank(g.l) <= LockRank(NextLock(t).l)

(* The callers t waits for, if it waits. *)
WaitsFor(t) ==
    IF Requests(t) THEN Holders(t) \cup QueuedWriters(t) ELSE {}

(* No group of callers in which each waits for another of the group. *)
NoWaitCycle ==
    \A S \in SUBSET LockCallers :
        S # {} => \E t \in S : WaitsFor(t) \cap S = {}

C36_NoDeadlock == LockOrderKept /\ NoWaitCycle

(* A caller that holds the mailbox map waits for the connection, which
   another caller holds together with a lock of the UID store. *)
C36_Witness ==
    \E t, u \in LockCallers :
        /\ Requests(t)
        /\ NextLock(t).l = "connection"
        /\ \E g \in Held(t) : g.l = "folders"
        /\ u \in Holders(t)
        /\ \E g \in Held(u) : LockRank(g.l) = 3


-----------------------------------------------------------------------------
(***************************************************************************)
(* C37: every UID FETCH, UID STORE and UID SEARCH is sent while the        *)
(* mailbox the connection last SELECTed or EXAMINEd is the mailbox of the  *)
(* call that sends it: no other caller's SELECT or EXAMINE falls between a *)
(* call's own and its UID command.                                         *)
(***************************************************************************)
(* The caller sends a UID command in this step. *)
SendsUid(t) ==
    /\ Sending(t)
    /\ NextCommand(t).a = "uid"
    /\ lk'[t].pc = lk[t].pc + 1

-----------------------------------------------------------------------------
(***************************************************************************)
(* C38: every hash search(query, m) returns identifies a message of        *)
(* mailbox m: hash_index maps it to (u, m) for a UID u of the SEARCH line, *)
(* also after get() has run on other mailboxes with the same UID numbers.  *)
(***************************************************************************)
(* search() on the thread has returned its hashes. *)
SearchReturned(t) ==
    th[t].op = "search" /\ th[t].pc = "done" /\ th[t].res = "ok"

C38_SearchInMailbox ==
    \A t \in Threads :
        SearchReturned(t) =>
            \A i \in 1..Len(th[t].hashes) :
                LET h == th[t].hashes[i]
                IN /\ h \in DOMAIN hash_index
                   /\ \E j \in 1..Len(th[t].reply.uids) :
                         hash_index[h] = <<th[t].reply.uids[j], th[t].m>>


-----------------------------------------------------------------------------
(***************************************************************************)
(* C39: at every moment after a batch of get() is delivered, every tag     *)
(* hash in the labels of a delivered envelope has an entry in the shared   *)
(* tag index, across any later get() and set_tag(tag, true/false) calls.   *)
(***************************************************************************)
C39_LabelsIndexed ==
    \A env \in Delivered : env.labels \subseteq tag_index


-----------------------------------------------------------------------------
(***************************************************************************)
(* C40: for every SELECT response select_response accepts, also one        *)
(* without a UIDNEXT line (uidnext 0), get() computes uidnext - 1 without  *)
(* unsigned underflow: the worker does not panic on the subtraction and    *)
(* the upper bound of its batch loop is at most the largest UIDNEXT - 1.   *)
(***************************************************************************)
(* The largest UIDNEXT a mailbox of the server has. *)
LargestUidNext == 2 * BatchSize + 1

(* The worker panicked with only its SELECT sent. *)
PanickedAtSelect(t) ==
    th[t].op = "get" /\ th[t].pc = "panicked" /\ Len(th[t].cmds) = 1

C40_NoUnderflow ==
    \A t \in Threads :
        th[t].op = "get" =>
            /\ ~PanickedAtSelect(t)
            /\ th[t].exists <= LargestUidNext - 1

=============================================================================
